---- MODULE Spec2Model ----
(***************************************************************************)
(* Model of the centaur-tutor spaced-repetition core:                      *)
(*   SpacedRepetitionEngine  (src/src/tutor/spaced-repetition.ts 17-215)   *)
(*   QuizStore               (src/src/tutor/spaced-repetition.ts 557-837)  *)
(*   initialize              (src/src/index.ts 47-64)                      *)
(*                                                                         *)
(* Time is counted in whole days.  toISOString() yields fixed-width UTC    *)
(* strings, so the string comparisons of the code order timestamps as the  *)
(* integers used here do.  Stages are 0-based as in the code; TLA+         *)
(* sequences are 1-based, so intervals[stage] of the code is               *)
(* ivs[stage + 1] here.                                                    *)
(***************************************************************************)
EXTENDS Integers, Sequences, FiniteSets, TLC

VARIABLES
    now,        \* the clock: value of new Date() / dayjs(), in days
    file,       \* the durable document quiz_db.json
    loaded,     \* per tutor instance: "none" (no such instance) or what load() read
    intervals,  \* per instance: SpacedRepetitionEngine.intervals
    db,         \* per instance: QuizStore.db, the in-memory dataset
    result,     \* how the last call ended: on which instance, normally or by which exception
    disk,       \* the state of the storage: "ok", or why fs.writeFileSync fails
    hist,       \* history variable, per instance and item: events since the state
                \* was created in (or loaded into) that instance, and creation time
    calls,      \* history variable, per item: processReviewResult calls issued
    sent,       \* the kinds of message handed to the gateway for config.channel
    userLevel,  \* per instance: config.userLevel of the tutor
    cronJobs,   \* the module-level array of the CronJob objects registered last
    running,    \* the CronJob objects that are started and not stopped
    awaiting    \* per instance and scheduled handler: the calls that handed their
                \* message to the gateway and await its answer before they return

vars == <<now, file, loaded, intervals, db, result, disk, hist, calls, sent, userLevel, cronJobs, running, awaiting>>

-----------------------------------------------------------------------------
(* Bounds of the model *)

\* Total number of processReviewResult calls explored.
MaxIssued == 4

\* The clock advances at most this many days.
MaxTime == 1

\* The tutor's clock advances at most this many days.
MaxDays == 2

\* The repository is asked to create at most this many scheduling states.
MaxStates == 2

\* At most this many calls of one handler wait for the gateway at a time.
MaxPending == 1

\* The repository is asked to store at most this many reviews, and as many study
\* sessions, sparring sessions and weekly reports.
MaxRecords == 1

Items == {"q1", "q2"}
Insts == {"a", "b"}

\* The handlers that await the gateway: handleDailyReview, handleEveningReview and
\* handleWeeklyReport.
Handlers == {"daily", "evening", "weekly"}

\* No call is waiting for the gateway.
NoneAwaiting == [i \in Insts |-> [h \in Handlers |-> 0]]

-----------------------------------------------------------------------------
(* Values *)

\* lastReviewedAt of a state that was never reviewed (undefined in the code).
NoTime == -1

\* config?.intervals ?? [1, 3, 7, 14, 30]
DefaultIntervals == <<1, 3, 7, 14, 30>>

\* process.env.USER_LEVEL ?? "intermediate"
DefaultLevel == "intermediate"

Min(x, y) == IF x <= y THEN x ELSE y
Max(x, y) == IF x >= y THEN x ELSE y

\* Array.prototype.slice(start): a negative start counts from the end, -0 is 0, and
\* the start is clamped to 0..length; the elements from there to the end.
SliceFrom(s, start) ==
    LET from == IF start < 0 THEN Max(Len(s) + start, 0) ELSE Min(start, Len(s))
    IN  SubSeq(s, from + 1, Len(s))

\* createEmpty(): every array empty, lastUpdated = now.
CreateEmpty(t) ==
    [quizzes          |-> <<>>,
     reviews          |-> <<>>,
     spacedRepetition |-> <<>>,
     sessions         |-> <<>>,
     sparringSessions |-> <<>>,
     weeklyReports    |-> <<>>,
     lastUpdated      |-> t]

\* The top-level fields of the document.
ArrayFields == {"quizzes", "reviews", "spacedRepetition", "sessions",
                "sparringSessions", "weeklyReports"}

\* The value of an optional string field that is undefined.
Undefined == "undefined"

\* JSON.stringify leaves out the keys whose value is undefined: sourceFile of an
\* item and feedback of a review are such keys.
StringifyQuiz(q) ==
    IF "sourceFile" \in DOMAIN q /\ q.sourceFile = Undefined
    THEN [f \in (DOMAIN q) \ {"sourceFile"} |-> q[f]]
    ELSE q

StringifyReview(r) ==
    IF "feedback" \in DOMAIN r /\ r.feedback = Undefined
    THEN [f \in (DOMAIN r) \ {"feedback"} |-> r[f]]
    ELSE r

\* JSON.stringify(this.db, null, 2) followed by JSON.parse: the document as a reader
\* parses it.
Stringify(d) ==
    [d EXCEPT !.quizzes = [k \in 1..Len(@) |-> StringifyQuiz(@[k])],
              !.reviews = [k \in 1..Len(@) |-> StringifyReview(@[k])]]

\* The durable file: absent, unreadable (readFileSync throws), torn (partially
\* written, so unparseable), or a parseable document.  A parseable document is described by the values of
\* its well-formed fields (doc) and by the set of its top-level fields that are
\* missing or hold something else than an array (bad); a document that is no
\* object at all (null, a number) has every field in bad.
\* An unreadable file also tells why readFileSync throws, which decides what
\* writeFileSync does to it: the file may be written but not read ("writeonly"),
\* neither read nor written, for lack of any permission or because a directory is
\* at its path ("locked"), or it is too large to read ("toolarge").
FileAbsent == [kind |-> "absent", doc |-> CreateEmpty(0), bad |-> {}]
FileTorn   == [kind |-> "torn", doc |-> CreateEmpty(0), bad |-> {}]
FileUnreadable(why) ==
    [kind |-> "unreadable", doc |-> CreateEmpty(0), bad |-> {}, why |-> why]
FileDoc(d) == [kind |-> "doc", doc |-> d, bad |-> {}]

\* The data directory does not exist and cannot be created (a component of its
\* path is a regular file, or its parent refuses the entry): there is no file.
FileNoDir == [kind |-> "nodir", doc |-> CreateEmpty(0), bad |-> {}]

\* new QuizStore(dataDir) up to load(): if (!fs.existsSync(dataDir))
\* fs.mkdirSync(dataDir, { recursive: true }), outside any try; it throws when the
\* directory cannot be created.
Constructible(f) == f.kind # "nodir"

\* Array.isArray(raw?.field)
IsArray(raw, field) == field \notin raw.bad

\* Mutant: sparringSessions is not carried over on load.
Sanitize_DropSparring(raw, t) ==
    [quizzes          |-> IF IsArray(raw, "quizzes") THEN raw.doc.quizzes ELSE <<>>,
     reviews          |-> IF IsArray(raw, "reviews") THEN raw.doc.reviews ELSE <<>>,
     spacedRepetition |-> IF IsArray(raw, "spacedRepetition")
                          THEN raw.doc.spacedRepetition ELSE <<>>,
     sessions         |-> IF IsArray(raw, "sessions") THEN raw.doc.sessions ELSE <<>>,
     sparringSessions |-> <<>>,
     weeklyReports    |-> IF IsArray(raw, "weeklyReports")
                          THEN raw.doc.weeklyReports ELSE <<>>,
     lastUpdated      |-> IF "lastUpdated" \in raw.bad THEN t ELSE raw.doc.lastUpdated]

\* Mutant: a document with any malformed field is given up as a whole.
Sanitize_AllOrNothing(raw, t) ==
    IF raw.bad \cap ArrayFields = {}
    THEN [raw.doc EXCEPT !.lastUpdated =
                            IF "lastUpdated" \in raw.bad THEN t ELSE raw.doc.lastUpdated]
    ELSE CreateEmpty(t)

\* sanitize(raw): every field that is an array is kept as stored, every other one
\* becomes []; lastUpdated is raw?.lastUpdated ?? now.
Sanitize(raw, t) ==
    [quizzes          |-> IF IsArray(raw, "quizzes") THEN raw.doc.quizzes ELSE <<>>,
     reviews          |-> IF IsArray(raw, "reviews") THEN raw.doc.reviews ELSE <<>>,
     spacedRepetition |-> IF IsArray(raw, "spacedRepetition")
                          THEN raw.doc.spacedRepetition ELSE <<>>,
     sessions         |-> IF IsArray(raw, "sessions") THEN raw.doc.sessions ELSE <<>>,
     sparringSessions |-> IF IsArray(raw, "sparringSessions")
                          THEN raw.doc.sparringSessions ELSE <<>>,
     weeklyReports    |-> IF IsArray(raw, "weeklyReports")
                          THEN raw.doc.weeklyReports ELSE <<>>,
     lastUpdated      |-> IF "lastUpdated" \in raw.bad THEN t ELSE raw.doc.lastUpdated]

\* load(): an absent file gives createEmpty(); a parseable document is sanitized; an
\* unreadable file makes readFileSync throw and a torn one makes JSON.parse throw:
\* the exception is caught and createEmpty() is returned.
Load(f, t) == IF f.kind = "doc" THEN Sanitize(f, t) ELSE CreateEmpty(t)

\* save(): lastUpdated is stamped on the in-memory dataset, which is then written whole.
Stamped(d, t) == [d EXCEPT !.lastUpdated = t]

-----------------------------------------------------------------------------
(* QuizStore: scheduling states *)

\* spacedRepetition.findIndex(m => m.quizId === quizId), 1-based; 0 when absent.
FindIndex(sr, q) ==
    IF \E k \in 1..Len(sr) : sr[k].quizId = q
    THEN CHOOSE k \in 1..Len(sr) :
            /\ sr[k].quizId = q
            /\ \A j \in 1..(k - 1) : sr[j].quizId # q
    ELSE 0

HasMeta(d, q) == FindIndex(d.spacedRepetition, q) > 0

MetaOf(d, q) == d.spacedRepetition[FindIndex(d.spacedRepetition, q)]

\* The state getOrCreateSRMeta creates.
NewMeta(q, firstReviewDate) ==
    [quizId             |-> q,
     currentStage       |-> 0,
     nextReviewDate     |-> firstReviewDate,
     consecutiveCorrect |-> 0,
     totalAttempts      |-> 0,
     totalCorrect       |-> 0,
     lastReviewedAt     |-> NoTime]

\* Mutant: an existing state is rescheduled to the first-due date passed.
GetOrCreateSRMeta_Reschedule(d, q, firstReviewDate, t) ==
    IF HasMeta(d, q)
    THEN [d EXCEPT !.spacedRepetition[FindIndex(d.spacedRepetition, q)].nextReviewDate =
                      firstReviewDate]
    ELSE Stamped([d EXCEPT !.spacedRepetition = Append(@, NewMeta(q, firstReviewDate))], t)

\* Mutant: a state is pushed whether or not the item has one.
GetOrCreateSRMeta_Duplicate(d, q, firstReviewDate, t) ==
    Stamped([d EXCEPT !.spacedRepetition = Append(@, NewMeta(q, firstReviewDate))], t)

\* The dataset after getOrCreateSRMeta(q, firstReviewDate) at time t: unchanged when
\* a state exists; otherwise the new state is pushed and the dataset saved.
GetOrCreateSRMeta(d, q, firstReviewDate, t) ==
    IF HasMeta(d, q)
    THEN d
    ELSE Stamped([d EXCEPT !.spacedRepetition = Append(@, NewMeta(q, firstReviewDate))], t)

\* Mutant: the state of q is written over the first state of the list.
WithMeta_First(d, q, m) ==
    [d EXCEPT !.spacedRepetition[1] = m]

\* The dataset with the state of q replaced by m (in-place mutation of the object
\* getOrCreateSRMeta returned, and the merge of updateSRMeta).
WithMeta(d, q, m) ==
    [d EXCEPT !.spacedRepetition[FindIndex(d.spacedRepetition, q)] = m]

\* Mutant: updateSRMeta replaces the state by the patch over a fresh state.
UpdateSRMeta_Replace(d, q, updates, t) ==
    LET sr == d.spacedRepetition
        k  == FindIndex(sr, q)
        merge(m) == [f \in DOMAIN m |-> IF f \in DOMAIN updates THEN updates[f] ELSE m[f]]
    IN  IF k > 0
        THEN Stamped([d EXCEPT !.spacedRepetition[k] = merge(NewMeta(sr[k].quizId, t))], t)
        ELSE d

\* updateSRMeta(q, updates): the first state of q becomes { ...existing, ...updates }
\* and the dataset is saved; without a state of q nothing happens.  updates is a
\* record holding the fields of the patch.
UpdateSRMeta(d, q, updates, t) ==
    LET sr == d.spacedRepetition
        k  == FindIndex(sr, q)
        merge(m) == [f \in DOMAIN m |-> IF f \in DOMAIN updates THEN updates[f] ELSE m[f]]
    IN  IF k > 0
        THEN Stamped([d EXCEPT !.spacedRepetition[k] = merge(sr[k])], t)
        ELSE d

\* Mutant: the comparison with asOf is strict.
GetDueQuizIds_Strict(d, asOf) ==
    LET due == SelectSeq(d.spacedRepetition, LAMBDA m : m.nextReviewDate < asOf)
    IN  [k \in 1..Len(due) |-> due[k].quizId]

\* getDueQuizIds(asOf): sr.filter(m => m.nextReviewDate <= asOf).map(m => m.quizId)
GetDueQuizIds(d, asOf) ==
    LET due == SelectSeq(d.spacedRepetition, LAMBDA m : m.nextReviewDate <= asOf)
    IN  [k \in 1..Len(due) |-> due[k].quizId]

-----------------------------------------------------------------------------
(* QuizStore: items, reviews, sessions, reports *)

\* The item addQuizzes makes of a draft: { ...item, id: uuidv4(), createdAt: now }.
NewQuiz(item, id, t) ==
    [id |-> id, topic |-> item.topic, sourceFile |-> item.sourceFile, createdAt |-> t]

\* addQuizzes(items) with the identifiers ids drawn by uuidv4.
AddQuizzes(d, items, ids, t) ==
    Stamped([d EXCEPT !.quizzes =
                         @ \o [k \in 1..Len(items) |-> NewQuiz(items[k], ids[k], t)]], t)

\* getQuiz(id): quizzes.find(q => q.id === id), as <<q>>, or <<>> for undefined.
GetQuiz(d, id) ==
    LET hits == SelectSeq(d.quizzes, LAMBDA q : q.id = id)
    IN  IF Len(hits) = 0 THEN <<>> ELSE <<hits[1]>>

\* Mutant: the reviews of the removed item go with it.
RemoveQuiz_Cascade(d, id, t) ==
    LET kept == SelectSeq(d.quizzes, LAMBDA q : q.id # id)
    IN  IF Len(kept) # Len(d.quizzes)
        THEN Stamped([d EXCEPT !.quizzes = kept,
                               !.reviews = SelectSeq(@, LAMBDA r : r.quizId # id)], t)
        ELSE d

\* removeQuiz(id): the items are filtered; the dataset is saved only when one went.
\* The scheduling states and the reviews of the item stay.
RemoveQuiz(d, id, t) ==
    LET kept == SelectSeq(d.quizzes, LAMBDA q : q.id # id)
    IN  IF Len(kept) # Len(d.quizzes)
        THEN Stamped([d EXCEPT !.quizzes = kept], t)
        ELSE d

\* addReview(record): { ...record, reviewedAt: now } is pushed and the dataset saved.
AddReview(d, record, t) ==
    Stamped([d EXCEPT !.reviews =
                         Append(@, [quizId     |-> record.quizId,
                                    result     |-> record.result,
                                    feedback   |-> record.feedback,
                                    reviewedAt |-> t])], t)

\* createSession(session): { ...session, id: uuidv4(), startedAt: now } is pushed.
CreateSession(d, session, id, t) ==
    Stamped([d EXCEPT !.sessions =
                         Append(@, [id        |-> id,
                                    topic     |-> session.topic,
                                    quizIds   |-> session.quizIds,
                                    method    |-> session.method,
                                    startedAt |-> t])], t)

\* saveSparringSession(session): replaces the stored session of the same id, or is
\* pushed.
SaveSparringSession(d, session, t) ==
    LET ss == d.sparringSessions
    IN  IF \E k \in 1..Len(ss) : ss[k].id = session.id
        THEN LET idx == CHOOSE k \in 1..Len(ss) :
                            /\ ss[k].id = session.id
                            /\ \A j \in 1..(k - 1) : ss[j].id # session.id
             IN  Stamped([d EXCEPT !.sparringSessions[idx] = session], t)
        ELSE Stamped([d EXCEPT !.sparringSessions = Append(@, session)], t)

\* saveWeeklyReport(report): the report is pushed.
SaveWeeklyReport(d, report, t) ==
    Stamped([d EXCEPT !.weeklyReports = Append(@, report)], t)

-----------------------------------------------------------------------------
(* SpacedRepetitionEngine *)

\* this.intervals = config?.intervals ?? [1, 3, 7, 14, 30]; no validation.
EngineIntervals(cfg) == IF cfg.has THEN cfg.intervals ELSE DefaultIntervals

\* this.intervals[stage] is a number iff stage indexes the list; undefined otherwise.
IntervalDefined(ivs, stage) == stage >= 0 /\ stage <= Len(ivs) - 1

\* Mutant: the acceleration starts one answer late (> 3 instead of >= 3).
StageJump_Late(consecutiveCorrect) == IF consecutiveCorrect > 3 THEN 2 ELSE 1

\* Mutant: no acceleration at all.
StageJump_Never(consecutiveCorrect) == 1

\* Mutant: only the third answer of a streak is accelerated.
StageJump_OnlyThird(consecutiveCorrect) == IF consecutiveCorrect = 3 THEN 2 ELSE 1

\* const stageJump = meta.consecutiveCorrect >= 3 ? 2 : 1   (after the increment)
StageJump(consecutiveCorrect) == IF consecutiveCorrect >= 3 THEN 2 ELSE 1

\* Mutant: the upper clamp is forgotten.
AdvanceStage_NoClamp(stage, jump, n) == stage + jump

\* Math.min(meta.currentStage + stageJump, this.intervals.length - 1)
AdvanceStage(stage, jump, n) == Min(stage + jump, n - 1)

\* Mutant: a lapse sends the item back to the first stage.
RegressStage_Reset(stage) == 0

\* Mutant: a lapse leaves the stage where it is.
RegressStage_Stay(stage) == stage

\* Math.max(meta.currentStage - 1, 0)
RegressStage(stage) == Max(stage - 1, 0)

\* Mutant: the stage is advanced by the streak before its increment.
Outcome_StaleStreak(m, isCorrect, ivs, t) ==
    LET a == [m EXCEPT !.totalAttempts = @ + 1, !.lastReviewedAt = t]
    IN  IF isCorrect
        THEN [a EXCEPT !.totalCorrect = @ + 1,
                       !.consecutiveCorrect = @ + 1,
                       !.currentStage =
                           AdvanceStage(@, StageJump(a.consecutiveCorrect), Len(ivs))]
        ELSE [a EXCEPT !.consecutiveCorrect = 0,
                       !.currentStage = RegressStage(@)]

\* Mutant: a correct outcome is not counted in totalCorrect.
Outcome_Uncounted(m, isCorrect, ivs, t) ==
    LET a == [m EXCEPT !.totalAttempts = @ + 1, !.lastReviewedAt = t]
    IN  IF isCorrect
        THEN [a EXCEPT !.consecutiveCorrect = @ + 1,
                       !.currentStage =
                           AdvanceStage(@, StageJump(a.consecutiveCorrect + 1), Len(ivs))]
        ELSE [a EXCEPT !.consecutiveCorrect = 0,
                       !.currentStage = RegressStage(@)]

\* Lines 66-84 of processReviewResult: the counters and the stage after an outcome.
Outcome(m, isCorrect, ivs, t) ==
    LET a == [m EXCEPT !.totalAttempts = @ + 1, !.lastReviewedAt = t]
    IN  IF isCorrect
        THEN [a EXCEPT !.totalCorrect = @ + 1,
                       !.consecutiveCorrect = @ + 1,
                       !.currentStage =
                           AdvanceStage(@, StageJump(a.consecutiveCorrect + 1), Len(ivs))]
        ELSE [a EXCEPT !.consecutiveCorrect = 0,
                       !.currentStage = RegressStage(@)]

\* The types of getReviewType, by stage.
ReviewTypes == <<"recall", "apply", "integrate", "critique", "teach">>

\* Mutant: the stage indexes the types without the clamp.
GetReviewType_NoClamp(stage) ==
    IF stage >= 0 /\ stage <= Len(ReviewTypes) - 1
    THEN <<ReviewTypes[stage + 1]>>
    ELSE <<>>

\* getReviewType(stage): types[Math.min(stage, types.length - 1)], as <<type>>, or
\* <<>> for undefined (an index below 0).
GetReviewType(stage) ==
    LET safeIdx == Min(stage, Len(ReviewTypes) - 1)
    IN  IF safeIdx >= 0 THEN <<ReviewTypes[safeIdx + 1]>> ELSE <<>>

\* Mutant: the next review is always scheduled with the first interval.
ReviewDate_First(ivs, stage, t) == t + ivs[1]

\* dayjs().add(intervals[stage], "day")
ReviewDate(ivs, stage, t) == t + ivs[stage + 1]

\* processReviewResult on the state m whose stage after the outcome has an
\* interval: the counters and the stage, then nextReviewDate = now + intervals[stage].
Rescheduled(m, isCorrect, ivs, t) ==
    LET o == Outcome(m, isCorrect, ivs, t)
    IN  [o EXCEPT !.nextReviewDate = ReviewDate(ivs, o.currentStage, t)]

\* Mutant: a due state without an item record ends the listing.
Hydrate_StopAtMissing(d, ids) ==
    LET looked == [k \in 1..Len(ids) |-> GetQuiz(d, ids[k])]
        n == IF \E k \in 1..Len(ids) : looked[k] = <<>>
             THEN (CHOOSE k \in 1..Len(ids) :
                      /\ looked[k] = <<>>
                      /\ \A j \in 1..(k - 1) : looked[j] # <<>>) - 1
             ELSE Len(ids)
    IN  [k \in 1..n |-> looked[k][1]]

\* dueIds.map(id => store.getQuiz(id)).filter(q => q !== undefined)
Hydrate(d, ids) ==
    LET looked == [k \in 1..Len(ids) |-> GetQuiz(d, ids[k])]
        kept   == SelectSeq(looked, LAMBDA x : x # <<>>)
    IN  [k \in 1..Len(kept) |-> kept[k][1]]

\* getDueQuizzes() as of asOf; the engine calls getDueQuizIds() without an argument,
\* so that asOf is the current time.
GetDueQuizzes(d, asOf) == Hydrate(d, GetDueQuizIds(d, asOf))

-----------------------------------------------------------------------------
(* History variables *)

NoHist == [ev |-> <<>>, t0 |-> NoTime]

TotalCalls == calls["q1"] + calls["q2"]

Up(i) == loaded[i] # "none"

\* Mutant: save() writes nothing.
Written_Nothing(d) == file

\* The file after save() of the stamped dataset d: fs.writeFileSync replaces it by
\* the serialized dataset; when the write fails the exception is caught and logged,
\* and the file is left as it was (the open was denied) or torn (the disk filled up).
\* A file that may be written but not read takes the new bytes and stays
\* unreadable; a file that may not be opened at all, and a data directory that
\* does not exist, refuse every write.
Written(d) ==
    IF file.kind = "nodir" \/ (file.kind = "unreadable" /\ file.why = "locked")
    THEN file
    ELSE IF file.kind = "unreadable" /\ file.why = "writeonly"
    THEN CASE disk = "ok"     -> [file EXCEPT !.doc = Stringify(d)]
           [] disk = "denied" -> file
           [] disk = "full"   -> [file EXCEPT !.doc = CreateEmpty(0)]
    ELSE CASE disk = "ok"     -> FileDoc(Stringify(d))
           [] disk = "denied" -> file
           [] disk = "full"   -> FileTorn

-----------------------------------------------------------------------------
(* Initial state: one tutor instance "a" constructed on a fresh data directory
   with a non-empty interval list. *)

InitLists == {<<1>>, <<2, 5>>, <<1, 3, 7>>, <<1, 3, 7, 14>>, DefaultIntervals,
              <<1, 2, 4, 8, 16, 32>>}

Init ==
    /\ now = 0
    /\ file = FileAbsent
    /\ loaded = [i \in Insts |-> IF i = "a" THEN "absent" ELSE "none"]
    /\ \E ivs \in InitLists :
          intervals = [i \in Insts |-> IF i = "a" THEN ivs ELSE <<>>]
    /\ db = [i \in Insts |-> CreateEmpty(0)]
    /\ result = [inst |-> "a", status |-> "ok"]
    /\ disk = "ok"
    /\ hist = [i \in Insts |-> [q \in Items |-> NoHist]]
    /\ calls = [q \in Items |-> 0]
    /\ sent = {}
    /\ userLevel = [i \in Insts |-> DefaultLevel]
    /\ cronJobs = <<>>
    /\ running = {}
    /\ awaiting = NoneAwaiting

-----------------------------------------------------------------------------
(* Actions *)

\* The clock advances by a day.
Tick ==
    /\ now < MaxTime
    /\ now' = now + 1
    /\ UNCHANGED <<file, loaded, intervals, db, result, disk, hist, calls, sent, userLevel, cronJobs, running, awaiting>>

\* SpacedRepetitionEngine.initializeForQuiz(q) on instance i.
\* With an empty interval list intervals[0] is undefined, dayjs().add(undefined)
\* is an invalid date and toISOString() throws RangeError before the store is touched.
InitializeForQuiz(i, q) ==
    /\ Up(i)
    /\ ~HasMeta(db[i], q) => Len(db[i].spacedRepetition) < MaxStates
    /\ IF Len(intervals[i]) = 0
       THEN /\ result' = [inst |-> i, status |-> "RangeError"]
            /\ UNCHANGED <<db, file, hist>>
       ELSE LET d1 == GetOrCreateSRMeta(db[i], q, ReviewDate(intervals[i], 0, now), now)
            IN  /\ db' = [db EXCEPT ![i] = d1]
                /\ file' = IF HasMeta(db[i], q) THEN file ELSE Written(d1)
                /\ hist' = IF HasMeta(db[i], q) THEN hist
                           ELSE [hist EXCEPT ![i][q] = [ev |-> <<"init">>, t0 |-> now]]
                /\ result' = [inst |-> i, status |-> "ok"]
    /\ UNCHANGED <<now, loaded, intervals, disk, calls, sent, userLevel, cronJobs, running, awaiting>>

\* SpacedRepetitionEngine.processReviewResult(q, isCorrect) on instance i.
ProcessReviewResult(i, q, isCorrect) ==
    /\ Up(i)
    /\ TotalCalls < MaxIssued
    /\ calls' = [calls EXCEPT ![q] = @ + 1]
    /\ IF Len(intervals[i]) = 0
       THEN \* line 62 throws before getOrCreateSRMeta is called
            /\ result' = [inst |-> i, status |-> "RangeError"]
            /\ UNCHANGED <<db, file, hist>>
       ELSE LET ivs     == intervals[i]
                created == ~HasMeta(db[i], q)
                d1      == GetOrCreateSRMeta(db[i], q, ReviewDate(ivs, 0, now), now)
                m       == Outcome(MetaOf(d1, q), isCorrect, ivs, now)
                ev      == IF isCorrect THEN "pass" ELSE "fail"
            IN  /\ hist' = IF created
                           THEN [hist EXCEPT ![i][q] = [ev |-> <<"lazy", ev>>, t0 |-> now]]
                           ELSE [hist EXCEPT ![i][q].ev = Append(@, ev)]
                /\ IF IntervalDefined(ivs, m.currentStage)
                   THEN LET m2 == [m EXCEPT !.nextReviewDate =
                                               ReviewDate(ivs, m.currentStage, now)]
                            d2 == Stamped(WithMeta(d1, q, m2), now)
                        IN  /\ db' = [db EXCEPT ![i] = d2]
                            /\ file' = Written(d2)
                            /\ result' = [inst |-> i, status |-> "ok"]
                   ELSE \* intervals[stage] is undefined: line 88 throws RangeError after
                        \* the state object was mutated in place; updateSRMeta is not reached
                        /\ db' = [db EXCEPT ![i] = WithMeta(d1, q, m)]
                        /\ file' = IF created THEN Written(d1) ELSE file
                        /\ result' = [inst |-> i, status |-> "RangeError"]
    /\ UNCHANGED <<now, loaded, intervals, disk, sent, userLevel, cronJobs, running, awaiting>>

Next ==
    \/ Tick
    \/ \E q \in Items : InitializeForQuiz("a", q)
    \/ \E q \in Items, c \in BOOLEAN : ProcessReviewResult("a", q, c)

Spec == Init /\ [][Next]_vars

-----------------------------------------------------------------------------
(* Lifecycle: tutor instances over the same data directory *)

\* The interval configurations handed to initialize(): none (the default list
\* applies), or a list, which may be empty or shorter than the one used before.
NoConfig == [has |-> FALSE, intervals |-> <<>>]
Config(l) == [has |-> TRUE, intervals |-> l]

\* A configuration that sets the level: USER_LEVEL in the environment, or userLevel
\* in the argument of initialize().
LevelConfig(level) == [has |-> FALSE, intervals |-> <<>>, userLevel |-> level]

\* REVIEW_INTERVALS in the environment that is no JSON text ("[1,"): text is
\* "unparsable"; or that is the JSON text null: text is "null".
EnvConfig(text) == [has |-> FALSE, intervals |-> <<>>, env |-> text]

\* A configuration whose k-th cron pattern (MORNING_CRON, EVENING_CRON,
\* WEEKLY_REPORT_CRON, or the argument's) is malformed.
BadCronConfig(k) == [has |-> FALSE, intervals |-> <<>>, badCron |-> k]

Configs == {NoConfig, Config(<<>>), Config(<<1>>), Config(<<1, 3, 7>>),
            LevelConfig("expert"), EnvConfig("unparsable"), EnvConfig("null")}
           \cup {BadCronConfig(k) : k \in 1..3}

\* What JSON.parse(process.env.REVIEW_INTERVALS) meets in loadConfig(): a JSON
\* array ("array", also when the variable is unset and the default applies), a text
\* on which it throws SyntaxError ("unparsable"), or null ("null"): the engine then
\* falls back to the default list (config?.intervals ?? [...]) and intervals.join
\* (index.ts 58) throws TypeError.
IntervalsText(cfg) == IF "env" \in DOMAIN cfg THEN cfg.env ELSE "array"

\* The position of the first malformed cron pattern, 0 when all are well-formed.
BadCron(cfg) == IF "badCron" \in DOMAIN cfg THEN cfg.badCron ELSE 0

\* fullConfig.userLevel: that of the argument, else process.env.USER_LEVEL, else
\* "intermediate".
ConfigLevel(cfg) == IF "userLevel" \in DOMAIN cfg THEN cfg.userLevel ELSE DefaultLevel

\* The three schedules of a registration.
JobKinds == <<"morning", "evening", "weekly">>

JobsIn(jobs) == {jobs[k] : k \in 1..Len(jobs)}

\* new CronJob(...): an object distinct from every job that is still running; id
\* tells the objects of one schedule apart.
NewJobs(run) ==
    LET id == CHOOSE n \in 1..(Cardinality(run) + 1) :
                  /\ \A j \in run : j.id # n
                  /\ \A m \in 1..(n - 1) : \E j \in run : j.id = m
    IN  [k \in 1..Len(JobKinds) |-> [kind |-> JobKinds[k], id |-> id]]

\* The jobs made before new CronJob throws on the malformed pattern at position
\* bad; all of them when bad is 0.
MadeJobs(all, bad) == IF bad = 0 THEN all ELSE SubSeq(all, 1, bad - 1)

\* Mutant: the jobs of the earlier registration are forgotten without being stopped.
RegisterCronJobs_NoStop(jobs, run, bad) ==
    [cronJobs |-> MadeJobs(NewJobs(run), bad),
     running  |-> run \cup JobsIn(MadeJobs(NewJobs(run), bad)),
     threw    |-> bad # 0]

\* registerCronJobs(config): every job in cronJobs is stopped and the array is
\* emptied; then the morning, the evening and the weekly job are created started
\* (fourth argument true) and pushed, one after the other.  new CronJob throws on
\* a malformed pattern: the jobs made before it stay started and listed.
RegisterCronJobs(jobs, run, bad) ==
    LET left == run \ JobsIn(jobs)
        made == MadeJobs(NewJobs(left), bad)
    IN  [cronJobs |-> made, running |-> left \cup JobsIn(made), threw |-> bad # 0]

\* shutdown(): every job in cronJobs is stopped and the array is emptied; the tutor
\* object stays.
Shutdown ==
    /\ running' = running \ JobsIn(cronJobs)
    /\ cronJobs' = <<>>
    /\ result' = [inst |-> "a", status |-> "ok"]
    /\ UNCHANGED <<now, file, loaded, intervals, db, disk, hist, calls, sent, userLevel, awaiting>>

\* initialize(config): loadConfig() reads the environment, where JSON.parse may
\* throw; tutor = new CentaurTutor(fullConfig), that is a new QuizStore, whose
\* constructor makes the data directory (and throws when it cannot) and loads the
\* durable document, and a new SpacedRepetitionEngine over it; then
\* registerCronJobs(fullConfig), which throws on a malformed pattern; then the log
\* lines, of which intervals.join throws on a list that is null.  A throw before
\* the assignment to tutor leaves everything as it was.
\* Instance i stands for a tutor object: the one a caller of an earlier initialize()
\* still holds, or the one of another process on the same data directory.
Initialize(i, cfg) ==
    IF IntervalsText(cfg) = "unparsable"
    THEN /\ result' = [inst |-> i, status |-> "SyntaxError"]
         /\ UNCHANGED <<now, file, loaded, intervals, db, disk, hist, calls, sent,
                        userLevel, cronJobs, running, awaiting>>
    ELSE IF ~Constructible(file)
    THEN /\ result' = [inst |-> i, status |-> "Error"]
         /\ UNCHANGED <<now, file, loaded, intervals, db, disk, hist, calls, sent,
                        userLevel, cronJobs, running, awaiting>>
    ELSE LET registered == RegisterCronJobs(cronJobs, running, BadCron(cfg))
         IN  /\ loaded' = [loaded EXCEPT ![i] = file.kind]
             /\ intervals' = [intervals EXCEPT ![i] = EngineIntervals(cfg)]
             /\ db' = [db EXCEPT ![i] = Load(file, now)]
             /\ hist' = [hist EXCEPT ![i] =
                           [q \in Items |->
                               IF HasMeta(Load(file, now), q)
                               THEN [ev |-> <<"loaded">>, t0 |-> now]
                               ELSE NoHist]]
             /\ userLevel' = [userLevel EXCEPT ![i] = ConfigLevel(cfg)]
             /\ cronJobs' = registered.cronJobs
             /\ running' = registered.running
             /\ result' = [inst |-> i,
                           status |-> IF registered.threw THEN "Error"
                                      ELSE IF IntervalsText(cfg) = "null" THEN "TypeError"
                                      ELSE "ok"]
             /\ UNCHANGED <<now, file, disk, calls, sent, awaiting>>

\* The process of instance i dies inside save(): fs.writeFileSync has truncated the
\* file and written only part of the new document.  The instance is gone.
CrashDuringSave(i) ==
    /\ Up(i)
    /\ file' = FileTorn
    /\ loaded' = [loaded EXCEPT ![i] = "none"]
    /\ intervals' = [intervals EXCEPT ![i] = <<>>]
    /\ db' = [db EXCEPT ![i] = CreateEmpty(0)]
    /\ hist' = [hist EXCEPT ![i] = [q \in Items |-> NoHist]]
    /\ cronJobs' = <<>>
    /\ running' = {}
    /\ awaiting' = [awaiting EXCEPT ![i] = NoneAwaiting[i]]
    /\ UNCHANGED <<now, result, disk, calls, sent, userLevel>>

\* One tutor whose configuration changes between initialisations.
NextConfig ==
    \/ \E cfg \in Configs : Initialize("a", cfg)
    \/ InitializeForQuiz("a", "q1")
    \/ \E c \in BOOLEAN : ProcessReviewResult("a", "q1", c)

SpecConfig == Init /\ [][NextConfig]_vars

\* Two tutor instances with the default configuration over one data directory.
NextShared ==
    \/ \E i \in Insts : Initialize(i, NoConfig)
    \/ \E i \in Insts : InitializeForQuiz(i, "q1")
    \/ \E i \in Insts, c \in BOOLEAN : ProcessReviewResult(i, "q1", c)

SpecShared == Init /\ [][NextShared]_vars

\* One tutor whose process may die while it persists, and is started again.
NextCrash ==
    \/ CrashDuringSave("a")
    \/ Initialize("a", NoConfig)
    \/ \E q \in Items : InitializeForQuiz("a", q)
    \/ \E c \in BOOLEAN : ProcessReviewResult("a", "q1", c)

SpecCrash == Init /\ [][NextCrash]_vars

-----------------------------------------------------------------------------
(* The tutor: study notes and the daily review *)

\* The identifiers uuidv4 can draw for a new item: those the dataset does not use.
FreshIds(d) ==
    Items \ ({d.quizzes[k].id : k \in 1..Len(d.quizzes)}
             \cup {d.spacedRepetition[k].quizId : k \in 1..Len(d.spacedRepetition)}
             \cup {d.reviews[k].quizId : k \in 1..Len(d.reviews)})

SessionIds == {"s1", "s2"}

FreshSessionIds(d) == SessionIds \ {d.sessions[k].id : k \in 1..Len(d.sessions)}

\* CentaurTutor.ingestStudyNote(text, topic): one item is added, its scheduling state
\* initialized and the study session recorded; each of the three saves the dataset.
\* With an empty interval list initializeForQuiz throws after the item was stored.
IngestStudyNote(i, topic, id, sid) ==
    /\ Up(i)
    /\ id \in FreshIds(db[i])
    /\ sid \in FreshSessionIds(db[i])
    /\ LET item == [topic |-> topic, sourceFile |-> Undefined]
           d1   == AddQuizzes(db[i], <<item>>, <<id>>, now)
       IN  IF Len(intervals[i]) = 0
           THEN /\ db' = [db EXCEPT ![i] = d1]
                /\ file' = Written(d1)
                /\ result' = [inst |-> i, status |-> "RangeError"]
                /\ UNCHANGED hist
           ELSE LET d2 == GetOrCreateSRMeta(d1, id, ReviewDate(intervals[i], 0, now), now)
                    d3 == CreateSession(d2, [topic |-> topic, quizIds |-> <<id>>,
                                             method |-> "ingest"], sid, now)
                IN  /\ db' = [db EXCEPT ![i] = d3]
                    /\ file' = Written(d3)
                    /\ hist' = IF HasMeta(d1, id) THEN hist
                               ELSE [hist EXCEPT ![i][id] = [ev |-> <<"init">>, t0 |-> now]]
                    /\ result' = [inst |-> i, status |-> "ok"]
    /\ UNCHANGED <<now, loaded, intervals, disk, calls, sent, userLevel, cronJobs, running, awaiting>>

\* The paths below studyLogsDir: directory, base name and extension.
NotePaths == {[dir |-> "", base |-> "tla", ext |-> ".md"],
              [dir |-> "week1", base |-> "raft", ext |-> ".md"]}

\* path.basename(filePath, path.extname(filePath))
Basename(filePath) == filePath.base

\* CentaurTutor.ingestFromFile(filePath) on instance i, the path naming an entry
\* of kind entry (a readable file, nothing, a directory, or a file that cannot be
\* read): when nothing is there (fs.existsSync is false) it throws Error,
\* and for a directory or an unreadable file fs.readFileSync throws (EISDIR,
\* EACCES); nothing is stored.  Otherwise the note is ingested with the base name
\* of the file as its topic.
IngestFromFile(i, filePath, entry, id, sid) ==
    IF entry = "file"
    THEN IngestStudyNote(i, Basename(filePath), id, sid)
    ELSE /\ Up(i)
         /\ result' = [inst |-> i, status |-> "Error"]
         /\ UNCHANGED <<now, file, loaded, intervals, db, disk, hist, calls, sent,
                        userLevel, cronJobs, running, awaiting>>

\* initializeForQuizzes(ids): initializeForQuiz for each id in turn.
RECURSIVE InitializeForQuizzes(_, _, _, _)
InitializeForQuizzes(d, ids, ivs, t) ==
    IF Len(ids) = 0 THEN d
    ELSE InitializeForQuizzes(GetOrCreateSRMeta(d, Head(ids), ReviewDate(ivs, 0, t), t),
                              Tail(ids), ivs, t)

\* CentaurTutor.registerExtractedQuizzes(quizData, sessionTopic): the items are
\* added with sourceFile undefined, their scheduling states initialized and one
\* session recorded with their identifiers.  With an empty interval list the first
\* initializeForQuiz throws after the items were stored.
RegisterExtractedQuizzes(i, topics, sessionTopic, ids, sid) ==
    /\ Up(i)
    /\ Len(ids) = Len(topics)
    /\ \A k \in 1..Len(ids) : ids[k] \in FreshIds(db[i])
    /\ \A j, k \in 1..Len(ids) : j # k => ids[j] # ids[k]
    /\ sid \in FreshSessionIds(db[i])
    /\ LET drafts == [k \in 1..Len(topics) |->
                         [topic |-> topics[k], sourceFile |-> Undefined]]
           d1     == AddQuizzes(db[i], drafts, ids, now)
       IN  IF Len(ids) > 0 /\ Len(intervals[i]) = 0
           THEN /\ db' = [db EXCEPT ![i] = d1]
                /\ file' = Written(d1)
                /\ result' = [inst |-> i, status |-> "RangeError"]
                /\ UNCHANGED hist
           ELSE LET d2 == InitializeForQuizzes(d1, ids, intervals[i], now)
                    d3 == CreateSession(d2, [topic |-> sessionTopic, quizIds |-> ids,
                                             method |-> "ingest"], sid, now)
                IN  /\ db' = [db EXCEPT ![i] = d3]
                    /\ file' = Written(d3)
                    /\ hist' = [hist EXCEPT ![i] =
                                  [x \in Items |->
                                      IF (\E k \in 1..Len(ids) : ids[k] = x) /\ ~HasMeta(d1, x)
                                      THEN [ev |-> <<"init">>, t0 |-> now]
                                      ELSE hist[i][x]]]
                    /\ result' = [inst |-> i, status |-> "ok"]
    /\ UNCHANGED <<now, loaded, intervals, disk, calls, sent, userLevel, cronJobs, running,
                   awaiting>>

\* The identifiers uuidv4 can draw for a sparring session.
SparringIds == {"sp1"}

\* CentaurTutor.startSparring(topic) on instance i, uuidv4 drawing the identifier
\* id: a session without rounds is saved.
StartSparring(i, topic, id) ==
    /\ Up(i)
    /\ \A k \in 1..Len(db[i].sparringSessions) : db[i].sparringSessions[k].id # id
    /\ LET d1 == SaveSparringSession(db[i], [id |-> id, topic |-> topic,
                                             startedAt |-> now, rounds |-> <<>>], now)
       IN  /\ db' = [db EXCEPT ![i] = d1]
           /\ file' = Written(d1)
    /\ result' = [inst |-> i, status |-> "ok"]
    /\ UNCHANGED <<now, loaded, intervals, disk, hist, calls, sent, userLevel, cronJobs,
                   running, awaiting>>

\* getRecentSparringSessions(100): recordSparringRound looks among the last hundred.
SparringLookback == 100

\* getRecentSparringSessions(count): this.db.sparringSessions.slice(-count).
GetRecentSparringSessions(d, count) == SliceFrom(d.sparringSessions, 0 - count)

\* CentaurTutor.recordSparringRound(sessionId, round) on instance i: the round is
\* pushed to the first session with that identifier among the recent ones (the
\* object the repository holds), which is then saved; an identifier not found
\* among them changes nothing.
RecordSparringRound(i, sessionId, round) ==
    /\ Up(i)
    /\ LET ss     == db[i].sparringSessions
           recent == GetRecentSparringSessions(db[i], SparringLookback)
           off    == Len(ss) - Len(recent)
           hits   == {k \in 1..Len(recent) : recent[k].id = sessionId}
       IN  IF hits = {}
           THEN UNCHANGED <<db, file>>
           ELSE LET k  == CHOOSE h \in hits : \A j \in hits : h <= j
                    session == [recent[k] EXCEPT !.rounds = Append(@, round)]
                    d0 == [db[i] EXCEPT !.sparringSessions[off + k] = session]
                    d1 == SaveSparringSession(d0, session, now)
                IN  /\ Len(recent[k].rounds) < MaxRecords
                    /\ db' = [db EXCEPT ![i] = d1]
                    /\ file' = Written(d1)
    /\ result' = [inst |-> i, status |-> "ok"]
    /\ UNCHANGED <<now, loaded, intervals, disk, hist, calls, sent, userLevel, cronJobs,
                   running, awaiting>>

\* The gateway answered a call of handler h on instance i (sendMessage resolved,
\* with true or false, which the handlers ignore): the handler returns.
GatewayAnswered(i, h) ==
    /\ awaiting[i][h] > 0
    /\ awaiting' = [awaiting EXCEPT ![i][h] = @ - 1]
    /\ result' = [inst |-> i, status |-> "ok"]
    /\ UNCHANGED <<now, file, loaded, intervals, db, disk, hist, calls, sent, userLevel,
                   cronJobs, running>>

\* CentaurTutor.handleDailyReview(), up to its await: the first due item is asked
\* about, through gateway.sendReviewQuestion; when nothing is due a notice goes to
\* gateway.sendMessage.  generateReviewQuestion calls getOrCreateSRMeta(id, now +
\* intervals[0]), and throws TypeError when the stage of the state has no type; the
\* handler then calls getOrCreateSRMeta(id, now).  The handler returns when the
\* gateway has answered (GatewayAnswered).
HandleDailyReview(i) ==
    /\ Up(i)
    /\ LET due == GetDueQuizzes(db[i], now)
       IN  IF Len(due) = 0
           THEN /\ awaiting[i]["daily"] < MaxPending
                /\ sent' = sent \cup {"notice"}
                /\ awaiting' = [awaiting EXCEPT ![i]["daily"] = @ + 1]
                /\ UNCHANGED <<db, file, hist, result>>
           ELSE IF Len(intervals[i]) = 0
           THEN /\ result' = [inst |-> i, status |-> "RangeError"]
                /\ UNCHANGED <<db, file, hist, sent, awaiting>>
           ELSE LET q  == due[1].id
                    d1 == GetOrCreateSRMeta(db[i], q, ReviewDate(intervals[i], 0, now), now)
                    d2 == GetOrCreateSRMeta(d1, q, now, now)
                    reviewType == GetReviewType(MetaOf(d1, q).currentStage)
                IN  /\ db' = [db EXCEPT ![i] = d2]
                    /\ file' = IF HasMeta(db[i], q) THEN file ELSE Written(d2)
                    /\ hist' = IF HasMeta(db[i], q) THEN hist
                               ELSE [hist EXCEPT ![i][q] = [ev |-> <<"asked">>, t0 |-> now]]
                    /\ IF Len(reviewType) = 0
                       THEN /\ result' = [inst |-> i, status |-> "TypeError"]
                            /\ UNCHANGED <<sent, awaiting>>
                       ELSE /\ awaiting[i]["daily"] < MaxPending
                            /\ sent' = sent \cup {"question"}
                            /\ awaiting' = [awaiting EXCEPT ![i]["daily"] = @ + 1]
                            /\ UNCHANGED result
    /\ UNCHANGED <<now, loaded, intervals, disk, calls, userLevel, cronJobs, running>>

\* QuizStore.removeQuiz(id) on instance i.
RemoveQuizCall(i, id) ==
    /\ Up(i)
    /\ LET d1 == RemoveQuiz(db[i], id, now)
       IN  /\ db' = [db EXCEPT ![i] = d1]
           /\ file' = IF GetQuiz(db[i], id) = <<>> THEN file ELSE Written(d1)
    /\ result' = [inst |-> i, status |-> "ok"]
    /\ UNCHANGED <<now, loaded, intervals, disk, hist, calls, sent, userLevel, cronJobs, running, awaiting>>

\* Mutant: the review is recorded as a pass whatever the answer.
ReviewOf_AlwaysPass(q, isCorrect, feedback) ==
    [quizId |-> q, result |-> "pass", feedback |-> feedback]

\* The record processReviewAnswer hands to addReview.
ReviewOf(q, isCorrect, feedback) ==
    [quizId   |-> q,
     result   |-> IF isCorrect THEN "pass" ELSE "fail",
     feedback |-> feedback]

\* CentaurTutor.processReviewAnswer(q, userAnswer, isCorrect, feedback) on instance
\* i: the review is pushed and saved by addReview, then processReviewResult
\* updates the scheduling state, which throws RangeError when the interval it
\* needs is undefined.
ProcessReviewAnswer(i, q, isCorrect, feedback) ==
    /\ Up(i)
    /\ TotalCalls < MaxIssued
    /\ calls' = [calls EXCEPT ![q] = @ + 1]
    /\ LET d0 == AddReview(db[i], ReviewOf(q, isCorrect, feedback), now)
       IN  IF Len(intervals[i]) = 0
           THEN /\ db' = [db EXCEPT ![i] = d0]
                /\ file' = Written(d0)
                /\ result' = [inst |-> i, status |-> "RangeError"]
                /\ UNCHANGED hist
           ELSE LET ivs     == intervals[i]
                    created == ~HasMeta(d0, q)
                    d1      == GetOrCreateSRMeta(d0, q, ReviewDate(ivs, 0, now), now)
                    m       == Outcome(MetaOf(d1, q), isCorrect, ivs, now)
                    ev      == IF isCorrect THEN "pass" ELSE "fail"
                IN  /\ hist' = IF created
                               THEN [hist EXCEPT ![i][q] =
                                        [ev |-> <<"lazy", ev>>, t0 |-> now]]
                               ELSE [hist EXCEPT ![i][q].ev = Append(@, ev)]
                    /\ IF IntervalDefined(ivs, m.currentStage)
                       THEN LET m2 == [m EXCEPT !.nextReviewDate =
                                                   ReviewDate(ivs, m.currentStage, now)]
                                d2 == Stamped(WithMeta(d1, q, m2), now)
                            IN  /\ db' = [db EXCEPT ![i] = d2]
                                /\ file' = Written(d2)
                                /\ result' = [inst |-> i, status |-> "ok"]
                       ELSE /\ db' = [db EXCEPT ![i] = WithMeta(d1, q, m)]
                            /\ file' = Written(d1)
                            /\ result' = [inst |-> i, status |-> "RangeError"]
    /\ UNCHANGED <<now, loaded, intervals, disk, sent, userLevel, cronJobs, running, awaiting>>

\* The feedback of the evaluation: none for a pass, a remark for a fail.
FeedbackOf(isCorrect) == IF isCorrect THEN Undefined ELSE "again"

\* CentaurTutor.handleEveningReview() on instance i, up to its await: the prompt
\* made of today's sessions goes to gateway.sendEveningReview; the repository is
\* only read.  The handler returns when the gateway has answered.
HandleEveningReview(i) ==
    /\ Up(i)
    /\ awaiting[i]["evening"] < MaxPending
    /\ sent' = sent \cup {"evening"}
    /\ awaiting' = [awaiting EXCEPT ![i]["evening"] = @ + 1]
    /\ UNCHANGED <<now, file, loaded, intervals, db, result, disk, hist, calls, userLevel,
                   cronJobs, running>>

\* The clock advances by a day, up to the day on which an item learnt on the first
\* day is overdue.
Dawn ==
    /\ now < MaxDays
    /\ now' = now + 1
    /\ UNCHANGED <<file, loaded, intervals, db, result, disk, hist, calls, sent, userLevel, cronJobs, running, awaiting>>

\* The tutor over the days: notes are ingested, the answers to the questions on
\* an item evaluated, the morning review run and answered by the gateway; items are
\* removed from the repository.
NextTutor ==
    \/ Dawn
    \/ \E id \in Items : IngestStudyNote("a", "tla", id, "s1")
    \/ \E q \in Items : RemoveQuizCall("a", q)
    \/ \E c \in BOOLEAN : ProcessReviewAnswer("a", "q1", c, FeedbackOf(c))
    \/ HandleDailyReview("a")
    \/ GatewayAnswered("a", "daily")

\* The interval lists of the tutor: a short one and the default one.
TutorLists == {<<1, 3>>, DefaultIntervals}

\* The tutor constructed on a fresh data directory with one of these lists.
InitTutor ==
    /\ now = 0
    /\ file = FileAbsent
    /\ loaded = [i \in Insts |-> IF i = "a" THEN "absent" ELSE "none"]
    /\ \E ivs \in TutorLists :
          intervals = [i \in Insts |-> IF i = "a" THEN ivs ELSE <<>>]
    /\ db = [i \in Insts |-> CreateEmpty(0)]
    /\ result = [inst |-> "a", status |-> "ok"]
    /\ disk = "ok"
    /\ hist = [i \in Insts |-> [q \in Items |-> NoHist]]
    /\ calls = [q \in Items |-> 0]
    /\ sent = {}
    /\ userLevel = [i \in Insts |-> DefaultLevel]
    /\ cronJobs = <<>>
    /\ running = {}
    /\ awaiting = NoneAwaiting

SpecTutor == InitTutor /\ [][NextTutor]_vars

\* The topics of the items handed to registerExtractedQuizzes: none, one item
\* whose topic is not the session's, two items.
ExtractedTopics == {<<>>, <<"raft">>, <<"tla", "raft">>}

\* The tutor while the learner studies: notes are ingested, as text or from a file
\* (whose base name is the topic), extracted items registered and sparring
\* sessions held.
NextStudy ==
    \/ Dawn
    \/ \E topic \in {"tla", "raft"}, id \in Items, sid \in SessionIds :
          IngestStudyNote("a", topic, id, sid)
    \/ \E filePath \in NotePaths, entry \in {"file", "missing", "directory", "unreadable"},
          id \in Items, sid \in SessionIds :
          IngestFromFile("a", filePath, entry, id, sid)
    \/ \E topics \in ExtractedTopics, ids \in {<<>>, <<"q1">>, <<"q1", "q2">>},
          sid \in SessionIds :
          RegisterExtractedQuizzes("a", topics, "tla", ids, sid)
    \/ \E id \in SparringIds : StartSparring("a", "tla", id)
    \/ \E id \in SparringIds : RecordSparringRound("a", id, "round")

SpecStudy == InitTutor /\ [][NextStudy]_vars

-----------------------------------------------------------------------------
(* The repository called directly *)

\* The history of the scheduling states after a repository call that took the
\* dataset of instance i from d to d2: a state the call changed or created is marked
\* by ev, an item left without state keeps only the time of its creation.
Touched(i, d, d2, ev) ==
    [hist EXCEPT ![i] =
        [x \in Items |->
            IF ~HasMeta(d2, x) THEN [ev |-> <<>>, t0 |-> hist[i][x].t0]
            ELSE IF HasMeta(d, x) /\ MetaOf(d, x) = MetaOf(d2, x) THEN hist[i][x]
            ELSE [ev |-> <<ev>>, t0 |-> now]]]

\* QuizStore.getOrCreateSRMeta(q, firstReviewDate) on instance i.
GetOrCreateSRMetaCall(i, q, firstReviewDate) ==
    /\ Up(i)
    /\ ~HasMeta(db[i], q) => Len(db[i].spacedRepetition) < MaxStates
    /\ LET d1 == GetOrCreateSRMeta(db[i], q, firstReviewDate, now)
       IN  /\ db' = [db EXCEPT ![i] = d1]
           /\ file' = IF HasMeta(db[i], q) THEN file ELSE Written(d1)
           /\ hist' = Touched(i, db[i], d1, IF disk = "ok" THEN "created" ELSE "unsaved")
    /\ result' = [inst |-> i, status |-> "ok"]
    /\ UNCHANGED <<now, loaded, intervals, disk, calls, sent, userLevel, cronJobs, running, awaiting>>

\* QuizStore.updateSRMeta(q, updates) on instance i.
UpdateSRMetaCall(i, q, updates) ==
    /\ Up(i)
    /\ LET d1 == UpdateSRMeta(db[i], q, updates, now)
       IN  /\ db' = [db EXCEPT ![i] = d1]
           /\ file' = IF HasMeta(db[i], q) THEN Written(d1) ELSE file
           /\ hist' = Touched(i, db[i], d1, "patched")
    /\ result' = [inst |-> i, status |-> "ok"]
    /\ UNCHANGED <<now, loaded, intervals, disk, calls, sent, userLevel, cronJobs, running, awaiting>>

\* QuizStore.addQuizzes(items) on instance i, uuidv4 drawing the identifiers ids.
AddQuizzesCall(i, items, ids) ==
    /\ Up(i)
    /\ Len(ids) = Len(items)
    /\ \A k \in 1..Len(ids) : ids[k] \in FreshIds(db[i])
    /\ \A j, k \in 1..Len(ids) : j # k => ids[j] # ids[k]
    /\ LET d1 == AddQuizzes(db[i], items, ids, now)
       IN  /\ db' = [db EXCEPT ![i] = d1]
           /\ file' = Written(d1)
    /\ result' = [inst |-> i, status |-> "ok"]
    /\ UNCHANGED <<now, loaded, intervals, disk, hist, calls, sent, userLevel, cronJobs, running, awaiting>>

\* The drafts handed to QuizStore.addQuizzes: without a source file, as the tutor
\* hands them, or with one (sourceFile is an optional field of an item).
Drafts == {[topic |-> "tla", sourceFile |-> Undefined],
           [topic |-> "raft", sourceFile |-> "raft.md"]}

\* The first-due dates handed to getOrCreateSRMeta.
FirstDues == {0, 5}

\* The patches handed to updateSRMeta: Partial<SpacedRepetitionMeta>.
Patches == {[currentStage |-> 1],
            [nextReviewDate |-> 0, consecutiveCorrect |-> 2],
            [quizId |-> "q2"]}

\* The scheduling states called upon by one client, through the scheduler and
\* through the repository.
NextSched ==
    \/ Tick
    \/ \E q \in Items, first \in FirstDues : GetOrCreateSRMetaCall("a", q, first)
    \/ \E q \in Items, p \in Patches : UpdateSRMetaCall("a", q, p)
    \/ \E q \in Items : InitializeForQuiz("a", q)

InitRepo == Init /\ intervals["a"] \in {<<2, 5>>, DefaultIntervals}

SpecSched == InitRepo /\ [][NextSched]_vars


-----------------------------------------------------------------------------
(* The repository and its durable document *)

\* QuizStore.addReview(record) on instance i.
AddReviewCall(i, record) ==
    /\ Up(i)
    /\ Len(db[i].reviews) < MaxRecords
    /\ LET d1 == AddReview(db[i], record, now)
       IN  /\ db' = [db EXCEPT ![i] = d1]
           /\ file' = Written(d1)
    /\ result' = [inst |-> i, status |-> "ok"]
    /\ UNCHANGED <<now, loaded, intervals, disk, hist, calls, sent, userLevel, cronJobs, running, awaiting>>

\* QuizStore.createSession(session) on instance i, uuidv4 drawing the identifier sid.
CreateSessionCall(i, session, sid) ==
    /\ Up(i)
    /\ Len(db[i].sessions) < MaxRecords
    /\ sid \in FreshSessionIds(db[i])
    /\ LET d1 == CreateSession(db[i], session, sid, now)
       IN  /\ db' = [db EXCEPT ![i] = d1]
           /\ file' = Written(d1)
    /\ result' = [inst |-> i, status |-> "ok"]
    /\ UNCHANGED <<now, loaded, intervals, disk, hist, calls, sent, userLevel, cronJobs, running, awaiting>>

\* QuizStore.saveSparringSession(session) on instance i.
SaveSparringSessionCall(i, session) ==
    /\ Up(i)
    /\ (\A k \in 1..Len(db[i].sparringSessions) :
            db[i].sparringSessions[k].id # session.id)
          => Len(db[i].sparringSessions) < MaxRecords
    /\ LET d1 == SaveSparringSession(db[i], session, now)
       IN  /\ db' = [db EXCEPT ![i] = d1]
           /\ file' = Written(d1)
    /\ result' = [inst |-> i, status |-> "ok"]
    /\ UNCHANGED <<now, loaded, intervals, disk, hist, calls, sent, userLevel, cronJobs, running, awaiting>>

\* Mutant: the report is pushed but the dataset is not saved.
SaveWeeklyReportCall_NoSave(i, report) ==
    /\ Up(i)
    /\ Len(db[i].weeklyReports) < MaxRecords
    /\ db' = [db EXCEPT ![i] = SaveWeeklyReport(db[i], report, now)]
    /\ result' = [inst |-> i, status |-> "ok"]
    /\ UNCHANGED <<now, file, loaded, intervals, disk, hist, calls, sent, userLevel, cronJobs, running, awaiting>>

\* QuizStore.saveWeeklyReport(report) on instance i.
SaveWeeklyReportCall(i, report) ==
    /\ Up(i)
    /\ Len(db[i].weeklyReports) < MaxRecords
    /\ LET d1 == SaveWeeklyReport(db[i], report, now)
       IN  /\ db' = [db EXCEPT ![i] = d1]
           /\ file' = Written(d1)
    /\ result' = [inst |-> i, status |-> "ok"]
    /\ UNCHANGED <<now, loaded, intervals, disk, hist, calls, sent, userLevel, cronJobs, running, awaiting>>

\* The records handed to addReview: with and without feedback.
ReviewRecords == {[quizId |-> "q1", result |-> "pass", feedback |-> Undefined],
                  [quizId |-> "q2", result |-> "fail", feedback |-> "again"]}

\* The study sessions handed to createSession.
StudySessions == {[topic |-> "tla", quizIds |-> <<"q1">>, method |-> "ingest"]}

\* The sparring sessions handed to saveSparringSession: a session as startSparring
\* makes it, and the same session after recordSparringRound pushed a round.
SparringSessions ==
    {[id |-> "sp1", topic |-> "tla", startedAt |-> 0, rounds |-> <<>>],
     [id |-> "sp1", topic |-> "tla", startedAt |-> 0, rounds |-> <<"round">>]}

\* The reports handed to saveWeeklyReport.
WeeklyReports == {[generatedAt |-> 0, totalReviews |-> 1, correctRate |-> 100]}

\* The items and their scheduling states: items are added and removed, reviews
\* logged, states created by the scheduler and through the repository, and
\* postponed through the repository.
NextDue ==
    \/ Tick
    \/ \E d \in Drafts, id \in Items : AddQuizzesCall("a", <<d>>, <<id>>)
    \/ \E q \in Items : RemoveQuizCall("a", q)
    \/ \E r \in ReviewRecords : AddReviewCall("a", r)
    \/ \E q \in Items : GetOrCreateSRMetaCall("a", q, 0)
    \/ \E q \in Items : UpdateSRMetaCall("a", q, [nextReviewDate |-> 5])
    \/ \E q \in Items : InitializeForQuiz("a", q)

SpecDue == InitRepo /\ [][NextDue]_vars

\* Every mutating call of the repository, and the restart of the tutor, which loads
\* the document into a new repository; all within one day.
NextStore ==
    \/ \E d \in Drafts : AddQuizzesCall("a", <<d>>, <<"q1">>)
    \/ RemoveQuizCall("a", "q1")
    \/ \E r \in ReviewRecords : AddReviewCall("a", r)
    \/ \E q \in Items : GetOrCreateSRMetaCall("a", q, 0)
    \/ UpdateSRMetaCall("a", "q1", [currentStage |-> 1])
    \/ \E ss \in StudySessions : CreateSessionCall("a", ss, "s1")
    \/ \E sp \in SparringSessions : SaveSparringSessionCall("a", sp)
    \/ \E w \in WeeklyReports : SaveWeeklyReportCall("a", w)
    \/ Initialize("a", NoConfig)

InitStore == Init /\ intervals["a"] = DefaultIntervals

SpecStore == InitStore /\ [][NextStore]_vars

\* The storage starts or stops refusing writes.
DiskChange(mode) ==
    /\ disk # mode
    /\ disk' = mode
    /\ UNCHANGED <<now, file, loaded, intervals, db, result, hist, calls, sent, userLevel, cronJobs, running, awaiting>>

\* The repository over a storage that fails at times.
NextDisk ==
    \/ Tick
    \/ \E mode \in {"ok", "denied", "full"} : DiskChange(mode)
    \/ \E r \in ReviewRecords : AddReviewCall("a", r)
    \/ \E q \in Items : GetOrCreateSRMetaCall("a", q, 0)
    \/ UpdateSRMetaCall("a", "q1", [currentStage |-> 1])

SpecDisk == InitStore /\ [][NextDisk]_vars

-----------------------------------------------------------------------------
(* Construction over a document found in the data directory *)

\* A dataset with a record of every kind, as an earlier run may have left it.
FoundDataset ==
    [quizzes          |-> <<NewQuiz([topic |-> "raft", sourceFile |-> "raft.md"], "q1", 0)>>,
     reviews          |-> <<[quizId |-> "q1", result |-> "pass", feedback |-> "good",
                             reviewedAt |-> 0]>>,
     spacedRepetition |-> <<NewMeta("q1", 1)>>,
     sessions         |-> <<[id |-> "s1", topic |-> "raft", quizIds |-> <<"q1">>,
                             method |-> "ingest", startedAt |-> 0]>>,
     sparringSessions |-> <<[id |-> "sp1", topic |-> "raft", startedAt |-> 0,
                             rounds |-> <<>>]>>,
     weeklyReports    |-> <<[generatedAt |-> 0, totalReviews |-> 1, correctRate |-> 100]>>,
     lastUpdated      |-> 0]

\* The documents the constructor may find: none, an unreadable or a torn one, and
\* parseable ones in which any set of top-level fields is missing or is no array.
Documents ==
    {FileAbsent, FileTorn}
        \cup {FileUnreadable(why) : why \in {"writeonly", "locked", "toolarge"}}
        \cup {[kind |-> "doc", doc |-> FoundDataset, bad |-> b] :
                 b \in SUBSET (ArrayFields \cup {"lastUpdated"})}

\* No tutor is running yet; the data directory holds one of the documents, or
\* cannot be made.
InitLoad ==
    /\ now = 1
    /\ file \in Documents \cup {FileNoDir}
    /\ loaded = [i \in Insts |-> "none"]
    /\ intervals = [i \in Insts |-> <<>>]
    /\ db = [i \in Insts |-> CreateEmpty(0)]
    /\ result = [inst |-> "a", status |-> "ok"]
    /\ disk = "ok"
    /\ hist = [i \in Insts |-> [q \in Items |-> NoHist]]
    /\ calls = [q \in Items |-> 0]
    /\ sent = {}
    /\ userLevel = [i \in Insts |-> DefaultLevel]
    /\ cronJobs = <<>>
    /\ running = {}
    /\ awaiting = NoneAwaiting

\* The tutor is started over the document and its repository is then used.
NextLoad ==
    \/ Initialize("a", NoConfig)
    \/ \E r \in ReviewRecords : AddReviewCall("a", r)

SpecLoad == InitLoad /\ [][NextLoad]_vars

-----------------------------------------------------------------------------
(* Properties *)

\* The scheduling state of q in instance i, as a freshly created one when absent.
StateOf(d, q) == IF HasMeta(d, q) THEN MetaOf(d, q) ELSE NewMeta(q, 0)

Events(i, q) == hist[i][q].ev

\* A step in which instance "a" records an outcome for q.
Recorded(q, e) ==
    /\ calls'[q] = calls[q] + 1
    /\ Events("a", q)' # <<>>
    /\ Events("a", q)'[Len(Events("a", q)')] = e

\* C1: for every non-empty interval list of length N, after every initialize and
\* recordOutcome call the stage of every scheduling state lies in 0..N-1.
C1_StageInRange ==
    \A q \in Items :
        (Len(intervals["a"]) > 0 /\ HasMeta(db["a"], q)) =>
            /\ MetaOf(db["a"], q).currentStage >= 0
            /\ MetaOf(db["a"], q).currentStage <= Len(intervals["a"]) - 1

\* C1 witness: four passes in a row on the default list; the last one is held at
\* the top stage by the upper clamp.
C1_Witness ==
    /\ intervals["a"] = DefaultIntervals
    /\ Events("a", "q1") = <<"init", "pass", "pass", "pass", "pass">>
    /\ MetaOf(db["a"], "q1").currentStage = 4

\* C2 as stated: with [1,3,7,14,30], after initialise, fail, pass, two more passes
\* leave the item at stage 3, due 14 days after the last review.
C2_Original ==
    \A q \in Items :
        (/\ intervals["a"] = DefaultIntervals
         /\ Events("a", q) = <<"init", "fail", "pass", "pass", "pass">>) =>
            /\ MetaOf(db["a"], q).currentStage = 3
            /\ MetaOf(db["a"], q).nextReviewDate = MetaOf(db["a"], q).lastReviewedAt + 14

\* C2 amended: with [1,3,7,14,30], after initialise, fail, pass (stage 1, streak 1),
\* two more passes bring the streak to 3 and leave the item at stage 4 (1 -> 2 -> 4),
\* due 30 days after the last review.
C2_Amended ==
    \A q \in Items :
        (/\ intervals["a"] = DefaultIntervals
         /\ Events("a", q) = <<"init", "fail", "pass", "pass", "pass">>) =>
            /\ MetaOf(db["a"], q).consecutiveCorrect = 3
            /\ MetaOf(db["a"], q).currentStage = 4
            /\ MetaOf(db["a"], q).nextReviewDate = MetaOf(db["a"], q).lastReviewedAt + 30

\* C2 witness: the scenario has run to its end on the default list.
C2_Witness ==
    /\ intervals["a"] = DefaultIntervals
    /\ Events("a", "q1") = <<"init", "fail", "pass", "pass", "pass">>
    /\ MetaOf(db["a"], "q1").totalAttempts = 4

\* C3: with [1,3,7,14,30], an item initialised at t0 has stage 0 and is due at t0+1;
\* a fail recorded at t0+1 leaves stage 0, due t0+2; the next pass gives streak 1,
\* stage 1, due 3 days after that review.
C3_Scenario ==
    \A q \in Items :
        LET m  == MetaOf(db["a"], q)
            t0 == hist["a"][q].t0
        IN  intervals["a"] = DefaultIntervals =>
              /\ Events("a", q) = <<"init">> =>
                    /\ m.currentStage = 0
                    /\ m.nextReviewDate = t0 + 1
              /\ (Events("a", q) = <<"init", "fail">> /\ m.lastReviewedAt = t0 + 1) =>
                    /\ m.currentStage = 0
                    /\ m.nextReviewDate = t0 + 2
              /\ Events("a", q) = <<"init", "fail", "pass">> =>
                    /\ m.consecutiveCorrect = 1
                    /\ m.currentStage = 1
                    /\ m.nextReviewDate = m.lastReviewedAt + 3

\* C3 witness: initialised at day 0, failed, then passed at day 1.
C3_Witness ==
    /\ intervals["a"] = DefaultIntervals
    /\ Events("a", "q1") = <<"init", "fail", "pass">>
    /\ hist["a"]["q1"].t0 = 0
    /\ MetaOf(db["a"], "q1").lastReviewedAt = 1
    /\ MetaOf(db["a"], "q1").nextReviewDate = 4

\* C8: an incorrect outcome recorded for an item at stage s sets the stage to s-1
\* when s > 0, leaves it at 0 when s = 0, and sets consecutiveCorrect to 0.
C8_Regression ==
    [][\A q \in Items :
          Recorded(q, "fail") =>
              LET s == StateOf(db["a"], q).currentStage
              IN  /\ MetaOf(db'["a"], q).currentStage = (IF s > 0 THEN s - 1 ELSE 0)
                  /\ MetaOf(db'["a"], q).consecutiveCorrect = 0]_vars

\* C8 witness: a lapse after a streak of three on the default list: stage 4 -> 3.
C8_Witness ==
    /\ intervals["a"] = DefaultIntervals
    /\ Events("a", "q1") = <<"lazy", "pass", "pass", "pass", "fail">>
    /\ MetaOf(db["a"], "q1").currentStage = 3
    /\ MetaOf(db["a"], "q1").consecutiveCorrect = 0

\* C9: a correct outcome increments totalCorrect and consecutiveCorrect by 1 and then
\* sets stage to min(stage + advance, N-1), advance being 2 if the incremented
\* consecutiveCorrect is at least 3 and 1 otherwise.
C9_Advance ==
    [][\A q \in Items :
          Recorded(q, "pass") =>
              LET m == StateOf(db["a"], q)
                  n == MetaOf(db'["a"], q)
                  N == Len(intervals["a"])
              IN  /\ n.totalCorrect = m.totalCorrect + 1
                  /\ n.consecutiveCorrect = m.consecutiveCorrect + 1
                  /\ n.currentStage =
                        (IF n.consecutiveCorrect >= 3
                         THEN (IF m.currentStage + 2 <= N - 1 THEN m.currentStage + 2 ELSE N - 1)
                         ELSE (IF m.currentStage + 1 <= N - 1 THEN m.currentStage + 1 ELSE N - 1))]_vars

\* C9 witness: the third pass of a streak on a six-stage list advances by 2, unclamped.
C9_Witness ==
    /\ Len(intervals["a"]) = 6
    /\ Events("a", "q2") = <<"lazy", "pass", "pass", "pass">>
    /\ MetaOf(db["a"], "q2").currentStage = 4
    /\ MetaOf(db["a"], "q2").totalCorrect = 3

\* The stage three plain +1 advances from stage 0 reach, each clamped to N-1.
PlainThree(N) == Min(Min(Min(0 + 1, N - 1) + 1, N - 1) + 1, N - 1)

FreshThreePasses(q) ==
    \/ Events("a", q) = <<"init", "pass", "pass", "pass">>
    \/ Events("a", q) = <<"lazy", "pass", "pass", "pass">>

\* C10 as stated: for every non-empty interval list, three consecutive correct
\* outcomes from a fresh item leave the stage at least 2 and strictly above the
\* stage three plain +1 advances reach.
C10_Original ==
    \A q \in Items :
        FreshThreePasses(q) =>
            /\ MetaOf(db["a"], q).currentStage >= 2
            /\ MetaOf(db["a"], q).currentStage > PlainThree(Len(intervals["a"]))

\* C10 amended: three consecutive correct outcomes from a fresh item leave the stage
\* at min(4, N-1): at least 2 for every list of length N >= 3, and strictly above the
\* stage of three plain +1 advances for every list of length N >= 5; for N <= 4 the
\* two stages are equal (both N-1).
C10_Amended ==
    \A q \in Items :
        FreshThreePasses(q) =>
            LET N == Len(intervals["a"])
                s == MetaOf(db["a"], q).currentStage
            IN  /\ s = Min(4, N - 1)
                /\ N >= 3 => s >= 2
                /\ N >= 5 => s > PlainThree(N)
                /\ N <= 4 => s = PlainThree(N)

\* C10 witness: three passes from a fresh item on the default list reach stage 4.
C10_Witness ==
    /\ intervals["a"] = DefaultIntervals
    /\ Events("a", "q1") = <<"init", "pass", "pass", "pass">>
    /\ MetaOf(db["a"], "q1").currentStage = 4

\* C4: recordOutcome calls against the same persisted dataset are serialized, so
\* none is lost: each call on an item whose state is persisted leaves the persisted
\* totalAttempts of that item increased by 1 (two calls: by 2).
C4_NoLostUpdate ==
    [][\A q \in Items :
          (/\ calls'[q] = calls[q] + 1
           /\ result'.status = "ok"
           /\ file.kind = "doc"
           /\ HasMeta(file.doc, q)) =>
              /\ file'.kind = "doc"
              /\ HasMeta(file'.doc, q)
              /\ MetaOf(file'.doc, q).totalAttempts =
                    MetaOf(file.doc, q).totalAttempts + 1]_vars

\* C5: a load observes a complete document (the previous or the new one), never a
\* partially written one.
C5_AtomicPersist ==
    \A i \in Insts : loaded[i] # "torn"

\* C6: no scheduler instance with an empty interval list exists.
C6_EmptyListRejected ==
    \A i \in Insts : Up(i) => Len(intervals[i]) > 0

\* C7: recordOutcome on a stored state whose stage is outside 0..N-1 for the current
\* non-empty interval list does not raise and leaves the stage inside 0..N-1 with
\* next-due = now + intervals[stage].
C7_OutOfRangeClamped ==
    [][\A q \in Items :
          (/\ calls'[q] = calls[q] + 1
           /\ result'.inst = "a"
           /\ Len(intervals["a"]) > 0
           /\ HasMeta(db["a"], q)
           /\ ~IntervalDefined(intervals["a"], MetaOf(db["a"], q).currentStage)) =>
              /\ result'.status = "ok"
              /\ IntervalDefined(intervals["a"], MetaOf(db'["a"], q).currentStage)
              /\ MetaOf(db'["a"], q).nextReviewDate =
                    ReviewDate(intervals["a"], MetaOf(db'["a"], q).currentStage, now)]_vars

-----------------------------------------------------------------------------
(* Scheduling states of the tutor *)

\* The time of the last schedule update of the state m of instance "a": its latest
\* recorded outcome, or its creation when no outcome was recorded.
LastScheduled(m) ==
    IF m.lastReviewedAt # NoTime THEN m.lastReviewedAt ELSE hist["a"][m.quizId].t0

\* C11: in every reachable state of the tutor, the next-due time of every scheduling
\* state is the time of its last schedule update (its creation by initialize or its
\* latest recordOutcome) plus intervals[stage] days.
C11_NextDue ==
    \A k \in 1..Len(db["a"].spacedRepetition) :
        LET m == db["a"].spacedRepetition[k]
        IN  /\ IntervalDefined(intervals["a"], m.currentStage)
            /\ m.nextReviewDate = LastScheduled(m) + intervals["a"][m.currentStage + 1]

\* On the third day a state moved up by an outcome recorded that day stands next to
\* a state that was created on the first day, was never reviewed and is overdue: its
\* item is the one the daily review asks about.
C11_Witness ==
    /\ now = 2
    /\ \E k \in 1..Len(db["a"].spacedRepetition) :
          LET m == db["a"].spacedRepetition[k]
          IN  /\ m.lastReviewedAt = 2
              /\ m.currentStage >= 1
              /\ m.nextReviewDate = 2 + intervals["a"][m.currentStage + 1]
    /\ \E k \in 1..Len(db["a"].spacedRepetition) :
          LET m == db["a"].spacedRepetition[k]
          IN  /\ m.lastReviewedAt = NoTime
              /\ hist["a"][m.quizId].t0 = 0
              /\ m.nextReviewDate < now
              /\ Len(GetDueQuizzes(db["a"], now)) > 0
              /\ GetDueQuizzes(db["a"], now)[1].id = m.quizId
-----------------------------------------------------------------------------
(* Scheduling states of the repository *)

\* The number of scheduling states instance "a" holds for item q.
StatesOf(q) ==
    Cardinality({k \in 1..Len(db["a"].spacedRepetition) :
                    db["a"].spacedRepetition[k].quizId = q})

\* A creating call (initialize, getOrCreateSRMeta, a lazily creating recordOutcome)
\* was made on item q.
CreatedOnce(q) == hist["a"][q].t0 # NoTime

\* C12: after any sequence of initialize, getOrCreateSchedulingState,
\* updateSchedulingState and recordOutcome calls the repository holds at most one
\* scheduling state per item id, and exactly one for every id on which a creating
\* call was made.
C12_OneStatePerItem ==
    \A q \in Items :
        /\ StatesOf(q) <= 1
        /\ CreatedOnce(q) => StatesOf(q) = 1
\* The scheduling states of instance "a" before and after a step.
SR == db["a"].spacedRepetition
SRNext == db'["a"].spacedRepetition

\* The first position of a state of q among the states sr, 0 when there is none.
FirstOf(sr, q) ==
    IF \A k \in 1..Len(sr) : sr[k].quizId # q THEN 0
    ELSE CHOOSE k \in 1..Len(sr) :
            sr[k].quizId = q /\ \A j \in 1..Len(sr) : sr[j].quizId = q => k <= j

\* What a creating call on q with the first-due date due must have done: nothing
\* when q had a state, and otherwise appended a state at stage 0 with zero counters
\* and that due date, the other states staying as they were.
CreatedOrKept(q, due) ==
    IF FirstOf(SR, q) > 0
    THEN db'["a"] = db["a"] /\ file' = file
    ELSE /\ Len(SRNext) = Len(SR) + 1
         /\ SubSeq(SRNext, 1, Len(SR)) = SR
         /\ LET m == SRNext[Len(SRNext)]
            IN  /\ m.quizId = q
                /\ m.currentStage = 0
                /\ m.nextReviewDate = due
                /\ m.consecutiveCorrect = 0
                /\ m.totalAttempts = 0
                /\ m.totalCorrect = 0
                /\ m.lastReviewedAt = NoTime

\* C19: initialize and getOrCreateSchedulingState are idempotent: for an item that
\* has a state they leave it (and the whole dataset) unchanged whatever first-due
\* date is passed; for an item without one they create a state at stage 0 with zero
\* counters, due on the date given, which is now + intervals[0] for initialize.
C19_Idempotent ==
    [][\A q \in Items :
          /\ InitializeForQuiz("a", q) => CreatedOrKept(q, now + intervals["a"][1])
          /\ \A first \in FirstDues :
                GetOrCreateSRMetaCall("a", q, first) => CreatedOrKept(q, first)]_vars

\* On the second day both items have a state: one was created through the repository
\* on the first day with the due date 5 and has kept it, whatever was passed since,
\* the other was created by initialize on the second day.
C19_Witness ==
    /\ now = 1
    /\ \E q, r \in Items :
          /\ HasMeta(db["a"], q) /\ HasMeta(db["a"], r)
          /\ Events("a", q) = <<"created">>
          /\ hist["a"][q].t0 = 0
          /\ MetaOf(db["a"], q).nextReviewDate = 5
          /\ Events("a", r) = <<"init">>
          /\ hist["a"][r].t0 = 1
          /\ MetaOf(db["a"], r).nextReviewDate = 1 + intervals["a"][1]

\* The fields of a scheduling state.
MetaFields == {"quizId", "currentStage", "nextReviewDate", "consecutiveCorrect",
               "totalAttempts", "totalCorrect", "lastReviewedAt"}

\* What updateSRMeta(q, p) must have done: nothing without a state of q; otherwise
\* the first state of q has the fields of p overwritten and its other fields as
\* before, and every other state and every other collection is as before.
PatchedOnly(q, p) ==
    LET k == FirstOf(SR, q)
    IN  IF k = 0
        THEN db'["a"] = db["a"] /\ file' = file
        ELSE /\ Len(SRNext) = Len(SR)
             /\ \A j \in 1..Len(SR) : j # k => SRNext[j] = SR[j]
             /\ DOMAIN SRNext[k] = MetaFields
             /\ \A f \in MetaFields :
                   SRNext[k][f] = IF f \in DOMAIN p THEN p[f] ELSE SR[k][f]
             /\ \A c \in ArrayFields \ {"spacedRepetition"} : db'["a"][c] = db["a"][c]

\* C20: updateSchedulingState for an id without state changes nothing; for an
\* existing state it overwrites exactly the fields present in the patch and leaves
\* the other fields of that state and every other state unchanged.
C20_UpdateFrame ==
    [][\A q \in Items, p \in Patches :
          UpdateSRMetaCall("a", q, p) => PatchedOnly(q, p)]_vars

\* A state created with the due date 5 was patched twice: it has the stage of the
\* first patch and the due date and streak of the second, next to an untouched state.
C20_Witness ==
    \E q, r \in Items :
        /\ q # r
        /\ HasMeta(db["a"], q) /\ HasMeta(db["a"], r)
        /\ Events("a", q) = <<"patched">>
        /\ MetaOf(db["a"], q).currentStage = 1
        /\ MetaOf(db["a"], q).nextReviewDate = 0
        /\ MetaOf(db["a"], q).consecutiveCorrect = 2
        /\ Events("a", r) = <<"created">>
        /\ MetaOf(db["a"], r).nextReviewDate = 5
-----------------------------------------------------------------------------
(* Due items *)

\* The times at which the due items are asked for: the current time, and the time
\* just before, at and just after every stored due date.
AsOfs ==
    {now} \cup {SR[k].nextReviewDate + e : k \in 1..Len(SR), e \in {-1, 0, 1}}

\* The items getDue lists as of asOf.
DueItems(asOf) ==
    LET due == GetDueQuizzes(db["a"], asOf)
    IN  {due[n] : n \in 1..Len(due)}

\* C17: for every asOf and every item of the repository, the item is in getDue(asOf)
\* if and only if it has a scheduling state whose next-due is at or before asOf.
C17_DueIff ==
    \A asOf \in AsOfs :
        \A n \in 1..Len(db["a"].quizzes) :
            LET item == db["a"].quizzes[n]
            IN  item \in DueItems(asOf)
                    <=> \E k \in 1..Len(SR) :
                           SR[k].quizId = item.id /\ SR[k].nextReviewDate <= asOf

\* On the second day one stored item is due exactly now and the other only on the
\* next day: the first alone is listed.
C17_Witness ==
    /\ now = 1
    /\ Len(db["a"].quizzes) = 2
    /\ \E q, r \in Items :
          /\ HasMeta(db["a"], q) /\ HasMeta(db["a"], r)
          /\ MetaOf(db["a"], q).nextReviewDate = 1
          /\ MetaOf(db["a"], r).nextReviewDate = 2
          /\ GetDueQuizzes(db["a"], now) = GetQuiz(db["a"], q)

\* The positions of the states that are due as of asOf and whose item is stored.
DuePositions(asOf) ==
    {k \in 1..Len(SR) :
        /\ SR[k].nextReviewDate <= asOf
        /\ \E n \in 1..Len(db["a"].quizzes) : db["a"].quizzes[n].id = SR[k].quizId}

\* C18: getDue does not fail on a due state whose item record is missing: that id is
\* left out, and the other due items are returned in the order in which their
\* states are stored.
C18_MissingSkipped ==
    \A asOf \in AsOfs :
        LET due == GetDueQuizzes(db["a"], asOf)
            pos == DuePositions(asOf)
        IN  /\ Len(due) = Cardinality(pos)
            /\ \A k \in pos :
                  LET n == Cardinality({j \in pos : j <= k})
                  IN  /\ due[n].id = SR[k].quizId
                      /\ due[n] \in {db["a"].quizzes[x] : x \in 1..Len(db["a"].quizzes)}

\* The first stored state is due and its item has been removed, the second is due
\* and its item is stored: the listing holds the second item alone.
C18_Witness ==
    /\ Len(SR) = 2
    /\ SR[1].nextReviewDate <= now
    /\ SR[2].nextReviewDate <= now
    /\ GetQuiz(db["a"], SR[1].quizId) = <<>>
    /\ GetQuiz(db["a"], SR[2].quizId) # <<>>
    /\ GetDueQuizzes(db["a"], now) = GetQuiz(db["a"], SR[2].quizId)
-----------------------------------------------------------------------------
(* The durable document *)

\* The document holds exactly the in-memory dataset of instance "a".
Stored == file = FileDoc(Stringify(db["a"]))

\* Every collection of the in-memory dataset of instance "a" holds something.
FullyPopulated == \A c \in ArrayFields : Len(db["a"][c]) > 0

\* C13: whenever a mutating repository call (addQuizzes, removeQuiz, addReview,
\* creation or update of a scheduling state, createSession, saveSparringSession,
\* saveWeeklyReport) has returned, the durable document contains exactly the
\* in-memory dataset; before the first of them there is no document and the dataset
\* is empty.
C13_Persisted ==
    IF file.kind = "absent"
    THEN \A c \in ArrayFields : db["a"][c] = <<>>
    ELSE Stored

\* Every kind of record has been stored, among them an item whose sourceFile is
\* undefined in memory and therefore has no such key in the document.
C13_Witness ==
    /\ FullyPopulated
    /\ Stored
    /\ \E k \in 1..Len(db["a"].quizzes) :
          /\ "sourceFile" \in DOMAIN db["a"].quizzes[k]
          /\ db["a"].quizzes[k].sourceFile = Undefined
          /\ "sourceFile" \notin DOMAIN file.doc.quizzes[k]
    /\ db["a"].sparringSessions[1].rounds # <<>>

\* The document after the step holds exactly the in-memory dataset after the step.
StoredNext == file' = FileDoc(Stringify(db'["a"]))

\* C14: when the durable write fails the call still returns normally with the change
\* in memory, and a mutating call whose write succeeds stores a document that holds
\* the whole in-memory dataset, the earlier unsaved changes included.
C14_WriteFailure ==
    [][/\ \A r \in ReviewRecords :
             AddReviewCall("a", r) =>
                 /\ result'.status = "ok"
                 /\ Len(db'["a"].reviews) = Len(db["a"].reviews) + 1
                 /\ db'["a"].reviews[Len(db'["a"].reviews)].quizId = r.quizId
                 /\ disk = "ok" => StoredNext
       /\ \A q \in Items :
             (GetOrCreateSRMetaCall("a", q, 0) /\ FirstOf(SR, q) = 0) =>
                 /\ result'.status = "ok"
                 /\ Len(SRNext) = Len(SR) + 1
                 /\ SRNext[Len(SRNext)].quizId = q
                 /\ disk = "ok" => StoredNext
       /\ (UpdateSRMetaCall("a", "q1", [currentStage |-> 1]) /\ FirstOf(SR, "q1") > 0) =>
                 /\ result'.status = "ok"
                 /\ SRNext[FirstOf(SR, "q1")].currentStage = 1
                 /\ disk = "ok" => StoredNext]_vars

\* A state was created while the write failed and has not been touched since; the
\* storage works again and the document, written by a later call, holds that state.
C14_Witness ==
    /\ disk = "ok"
    /\ Stored
    /\ \E q \in Items :
          /\ Events("a", q) = <<"unsaved">>
          /\ HasMeta(file.doc, q)

\* The field f of the record r holds a value.
Populated(r, f) == f \notin {"sourceFile", "feedback"} \/ r[f] # Undefined

\* The records ys are the records xs, in the same order, with every populated field
\* equal and no other field.
SameRecords(xs, ys) ==
    /\ Len(ys) = Len(xs)
    /\ \A k \in 1..Len(xs) :
          /\ DOMAIN ys[k] \subseteq DOMAIN xs[k]
          /\ \A f \in DOMAIN xs[k] :
                Populated(xs[k], f) => f \in DOMAIN ys[k] /\ ys[k][f] = xs[k][f]

\* C16: loading the document a repository has persisted into a new repository
\* yields the same items, reviews, scheduling states, sessions, sparring sessions
\* and weekly reports, in the same order, with all populated fields equal.
C16_RoundTrip ==
    [][Initialize("a", NoConfig) =>
          \A c \in ArrayFields : SameRecords(db["a"][c], db'["a"][c])]_vars

\* A fully populated dataset has been loaded from the document: the states are
\* marked as loaded and an item whose sourceFile was undefined has no such key.
C16_Witness ==
    /\ loaded["a"] = "doc"
    /\ FullyPopulated
    /\ Len(db["a"].spacedRepetition) = 2
    /\ \A q \in Items : Events("a", q) = <<"loaded">>
    /\ \E k \in 1..Len(db["a"].quizzes) : "sourceFile" \notin DOMAIN db["a"].quizzes[k]
    /\ "feedback" \notin DOMAIN db["a"].reviews[1]
-----------------------------------------------------------------------------
(* Construction *)

\* C15: constructing the repository never fails: every construction returns a
\* repository; from an unreadable or unparseable document its dataset is empty, and
\* from a parseable one in which some top-level arrays are missing or are no arrays
\* exactly those collections are empty while the well-formed ones are kept.
C15_LoadNeverFails ==
    [][Initialize("a", NoConfig) =>
          /\ result'.status = "ok"
          /\ Up("a")'
          /\ \A c \in ArrayFields :
                db'["a"][c] = IF file.kind = "doc" /\ c \notin file.bad
                              THEN file.doc[c]
                              ELSE <<>>]_vars

\* What load() makes of the document found, whenever the constructor gets to it:
\* the dataset is empty for an absent, unreadable or torn file, and for a parseable
\* document exactly the malformed collections are empty.
LoadedAsFound ==
    [][(Initialize("a", NoConfig) /\ Constructible(file)) =>
          /\ result'.status = "ok"
          /\ Up("a")'
          /\ \A c \in ArrayFields :
                db'["a"][c] = IF file.kind = "doc" /\ c \notin file.bad
                              THEN file.doc[c]
                              ELSE <<>>]_vars

-----------------------------------------------------------------------------
(* Unknown item ids *)

\* C21: a call of initialize with an id for which the repository holds no item
\* ends in a not-found result and creates no scheduling state: the dataset is as
\* it was before the call.
C21_NotFound ==
    [][\A q \in Items :
          InitializeForQuiz("a", q) /\ GetQuiz(db["a"], q) = <<>> =>
              /\ result'.status = "not-found"
              /\ db' = db]_vars

-----------------------------------------------------------------------------
(* The last stage *)

\* C22: with at least two intervals, an outcome recorded for an item at the last
\* stage N-1 leaves it there when correct and moves it to stage N-2 when incorrect.
C22_LastStage ==
    [][\A q \in Items, c \in BOOLEAN :
          LET n == Len(intervals["a"])
          IN  /\ ProcessReviewResult("a", q, c)
              /\ n >= 2
              /\ HasMeta(db["a"], q)
              /\ MetaOf(db["a"], q).currentStage = n - 1
              => MetaOf(db'["a"], q).currentStage = IF c THEN n - 1 ELSE n - 2]_vars

\* With three intervals an item went 1, 2, stayed at 2 on a third pass, and was
\* moved to stage 1 by the lapse that followed.
C22_Witness ==
    /\ intervals["a"] = <<1, 3, 7>>
    /\ hist["a"]["q1"].ev = <<"lazy", "pass", "pass", "pass", "fail">>
    /\ MetaOf(db["a"], "q1").currentStage = 1

-----------------------------------------------------------------------------
(* CentaurTutor: the weekly report *)

\* The window of the report and of getRecentReviews(7), in days.
WindowDays == 7

\* getRecentSessions(100): the report looks at the last 100 study sessions.
SessionLookback == 100

\* slice(0, 5): the ranking keeps five entries.
TopCount == 5

\* quiz?.topic ?? "알 수 없음": the topic shown for an item the repository lacks,
\* and quiz?.topic ?? "" inside the suggestion.
UnknownTopic == "unknown"
NoTopic == ""

\* getRecentReviews(days): the reviews with reviewedAt >= now - days.
GetRecentReviews(d, days, t) ==
    SelectSeq(d.reviews, LAMBDA r : r.reviewedAt >= t - days)

\* getRecentSessions(count): this.db.sessions.slice(-count).
GetRecentSessions(d, count) == SliceFrom(d.sessions, 0 - count)

\* Mutant: an empty window counts as a perfect one.
CorrectRate_EmptyPerfect(reviews) ==
    LET total   == Len(reviews)
        correct == Len(SelectSeq(reviews, LAMBDA r : r.result = "pass"))
    IN  IF total > 0 THEN [num |-> 100 * correct, den |-> total]
                     ELSE [num |-> 100, den |-> 1]

\* totalReviews > 0 ? (correctCount / totalReviews) * 100 : 0, as the exact
\* fraction num / den.
CorrectRate(reviews) ==
    LET total   == Len(reviews)
        correct == Len(SelectSeq(reviews, LAMBDA r : r.result = "pass"))
    IN  IF total > 0 THEN [num |-> 100 * correct, den |-> total]
                     ELSE [num |-> 0, den |-> 1]

\* correctRate < k and correctRate = k for a whole number k.
RateBelow(rate, k) == rate.num < k * rate.den
RateIs(rate, k) == rate.num = k * rate.den

\* Mutant: every session of the window is counted, not every topic.
TopicsStudied_Sessions(d, t) ==
    Len(SelectSeq(GetRecentSessions(d, SessionLookback),
                  LAMBDA s : s.startedAt >= t - WindowDays))

\* new Set(recentSessions.map(s => s.topic)).size over the last 100 sessions
\* that started in the window.
TopicsStudied(d, t) ==
    LET recent == SelectSeq(GetRecentSessions(d, SessionLookback),
                            LAMBDA s : s.startedAt >= t - WindowDays)
    IN  Cardinality({recent[k].topic : k \in 1..Len(recent)})

\* failureMap after the loop over the reviews: a Map keeps its keys in the order
\* of their first insertion, here as a sequence of entries.
RECURSIVE FailureMap(_)
FailureMap(reviews) ==
    IF Len(reviews) = 0 THEN <<>>
    ELSE LET prev == FailureMap(SubSeq(reviews, 1, Len(reviews) - 1))
             r    == reviews[Len(reviews)]
             at   == {k \in 1..Len(prev) : prev[k].quizId = r.quizId}
         IN  IF r.result # "fail" THEN prev
             ELSE IF at = {} THEN Append(prev, [quizId |-> r.quizId, failCount |-> 1])
             ELSE LET k == CHOOSE k \in at : TRUE
                  IN  [prev EXCEPT ![k].failCount = @ + 1]

\* Mutant: entries of equal count are ordered latest first.
RECURSIVE SortByFailCount_Unstable(_)
SortByFailCount_Unstable(entries) ==
    IF Len(entries) = 0 THEN <<>>
    ELSE LET sorted == SortByFailCount_Unstable(SubSeq(entries, 1, Len(entries) - 1))
             e      == entries[Len(entries)]
             before == SelectSeq(sorted, LAMBDA x : x.failCount > e.failCount)
             after  == SelectSeq(sorted, LAMBDA x : x.failCount <= e.failCount)
         IN  before \o <<e>> \o after

\* sort((a, b) => b[1] - a[1]): descending by count; Array.prototype.sort is
\* stable, so entries of equal count keep their order.
RECURSIVE SortByFailCount(_)
SortByFailCount(entries) ==
    IF Len(entries) = 0 THEN <<>>
    ELSE LET sorted == SortByFailCount(SubSeq(entries, 1, Len(entries) - 1))
             e      == entries[Len(entries)]
             before == SelectSeq(sorted, LAMBDA x : x.failCount >= e.failCount)
             after  == SelectSeq(sorted, LAMBDA x : x.failCount < e.failCount)
         IN  before \o <<e>> \o after

\* slice(0, count)
Slice(s, count) == SubSeq(s, 1, Min(count, Len(s)))

\* The WeaknessItem made of a ranking entry: the topic is looked up by getQuiz.
WeaknessItem(d, entry) ==
    LET quiz == GetQuiz(d, entry.quizId)
    IN  [quizId     |-> entry.quizId,
         topic      |-> IF Len(quiz) = 0 THEN UnknownTopic ELSE quiz[1].topic,
         failCount  |-> entry.failCount,
         suggestion |-> IF Len(quiz) = 0 THEN NoTopic ELSE quiz[1].topic]

\* topWeaknesses of generateWeeklyReport.
TopWeaknesses(d, reviews) ==
    LET top == Slice(SortByFailCount(FailureMap(reviews)), TopCount)
    IN  [k \in 1..Len(top) |-> WeaknessItem(d, top[k])]

\* Mutant: the volume nudge comes before the call-out.
GenerateRecommendations_NudgeFirst(correctRate, weaknesses, topicsStudied) ==
    <<[rule |-> IF RateBelow(correctRate, 50) THEN "lower"
                ELSE IF RateBelow(correctRate, 75) THEN "practice"
                ELSE "raise",
       topic |-> NoTopic]>>
    \o (IF topicsStudied < 3 THEN <<[rule |-> "volume", topic |-> NoTopic]>> ELSE <<>>)
    \o (IF Len(weaknesses) > 0
        THEN <<[rule |-> "spar", topic |-> weaknesses[1].topic]>> ELSE <<>>)

\* generateRecommendations: the messages by the rule that pushed them; the
\* call-out carries the topic it names.
GenerateRecommendations(correctRate, weaknesses, topicsStudied) ==
    <<[rule |-> IF RateBelow(correctRate, 50) THEN "lower"
                ELSE IF RateBelow(correctRate, 75) THEN "practice"
                ELSE "raise",
       topic |-> NoTopic]>>
    \o (IF Len(weaknesses) > 0
        THEN <<[rule |-> "spar", topic |-> weaknesses[1].topic]>> ELSE <<>>)
    \o (IF topicsStudied < 3 THEN <<[rule |-> "volume", topic |-> NoTopic]>> ELSE <<>>)

\* Mutant: passes are tallied with the fails.
GenerateWeeklyReport_AllResults(d, t) ==
    LET recentReviews == GetRecentReviews(d, WindowDays, t)
        correctRate   == CorrectRate(recentReviews)
        topicsStudied == TopicsStudied(d, t)
        topWeaknesses == TopWeaknesses(d, [k \in 1..Len(recentReviews) |->
                                [recentReviews[k] EXCEPT !.result = "fail"]])
    IN  [periodStart     |-> t - WindowDays,
         periodEnd       |-> t,
         generatedAt     |-> t,
         totalReviews    |-> Len(recentReviews),
         correctRate     |-> correctRate,
         topicsStudied   |-> topicsStudied,
         topWeaknesses   |-> topWeaknesses,
         recommendations |-> GenerateRecommendations(correctRate, topWeaknesses,
                                                     topicsStudied)]

\* generateWeeklyReport() at time t.
GenerateWeeklyReport(d, t) ==
    LET recentReviews == GetRecentReviews(d, WindowDays, t)
        correctRate   == CorrectRate(recentReviews)
        topicsStudied == TopicsStudied(d, t)
        topWeaknesses == TopWeaknesses(d, recentReviews)
    IN  [periodStart     |-> t - WindowDays,
         periodEnd       |-> t,
         generatedAt     |-> t,
         totalReviews    |-> Len(recentReviews),
         correctRate     |-> correctRate,
         topicsStudied   |-> topicsStudied,
         topWeaknesses   |-> topWeaknesses,
         recommendations |-> GenerateRecommendations(correctRate, topWeaknesses,
                                                     topicsStudied)]

\* CentaurTutor.handleWeeklyReport() on instance i, up to its await: the report is
\* generated and pushed to the repository, and its summary goes to
\* gateway.sendWeeklyReport.  The handler returns when the gateway has answered.
HandleWeeklyReport(i) ==
    /\ Up(i)
    /\ Len(db[i].weeklyReports) < MaxRecords
    /\ LET d1 == SaveWeeklyReport(db[i], GenerateWeeklyReport(db[i], now), now)
       IN  /\ db' = [db EXCEPT ![i] = d1]
           /\ file' = Written(d1)
    /\ awaiting[i]["weekly"] < MaxPending
    /\ sent' = sent \cup {"weekly"}
    /\ awaiting' = [awaiting EXCEPT ![i]["weekly"] = @ + 1]
    /\ UNCHANGED <<now, loaded, intervals, result, disk, hist, calls, userLevel, cronJobs,
                   running>>

\* The day of the report: the value of dayjs() in generateWeeklyReport.
ReportDay == 9

\* Most reviews in the window of a report.
MaxReviews == 10

\* Most fails among the reviews of a window, and most fails of one item.
MaxFails == 3
MaxFailCount == 2

\* The ids reviewed, and the items the repository holds: "q6" was removed.
ReportIds == <<"q1", "q2", "q3", "q4", "q5", "q6">>
ReportQuizzes ==
    <<NewQuiz([topic |-> "Quantum", sourceFile |-> Undefined], "q1", 0),
      NewQuiz([topic |-> "Quantum", sourceFile |-> Undefined], "q2", 0),
      NewQuiz([topic |-> "tla", sourceFile |-> Undefined], "q3", 0),
      NewQuiz([topic |-> "raft", sourceFile |-> Undefined], "q4", 0),
      NewQuiz([topic |-> "paxos", sourceFile |-> Undefined], "q5", 0)>>

\* A stored review, as addReview pushed it at time t.
Rev(q, res, t) ==
    [quizId |-> q, result |-> res, feedback |-> Undefined, reviewedAt |-> t]

\* A fail recorded the day before the window opens, or none.
OldReviews == {<<>>, <<Rev("q1", "fail", ReportDay - WindowDays - 1)>>}

\* The orders in which the ids are first reviewed.
RankOrders == {ReportIds,
               <<"q6", "q5", "q4", "q3", "q2", "q1">>,
               <<"q3", "q6", "q1", "q5", "q2", "q4">>}

\* The reviews of a week in which item q failed c[q] times: a pass, then rounds
\* of fails in the given order, an item failing in the rounds 1..c[q].
RankingList(order, c) ==
    LET n    == Len(order)
        all  == [k \in 1..(MaxFailCount * n) |->
                    [q |-> order[((k - 1) % n) + 1], round |-> ((k - 1) \div n) + 1]]
        kept == SelectSeq(all, LAMBDA e : c[e.q] >= e.round)
    IN  <<Rev(order[1], "pass", ReportDay - 2)>>
        \o [k \in 1..Len(kept) |-> Rev(kept[k].q, "fail", ReportDay - 1)]

RankingLists ==
    {old \o RankingList(order, c) :
        old \in OldReviews, order \in RankOrders,
        c \in [{ReportIds[k] : k \in 1..Len(ReportIds)} -> 0..MaxFailCount]}

\* The reviews of a week with n reviews, fails at the positions F: the first k of
\* them on q1, the others on q2; passes on q3.  The first review is recorded on
\* the day the window opens.
RateList(n, F, k) ==
    [p \in 1..n |->
        LET t == IF p = 1 THEN ReportDay - WindowDays ELSE ReportDay - 1
        IN  IF p \in F
            THEN Rev(IF Cardinality({x \in F : x <= p}) <= k THEN "q1" ELSE "q2",
                     "fail", t)
            ELSE Rev("q3", "pass", t)]

RateLists ==
    UNION {UNION {{old \o RateList(n, F, k) :
                      old \in OldReviews, k \in 0..Cardinality(F)} :
                  F \in {S \in SUBSET (1..n) : Cardinality(S) <= MaxFails}} :
           n \in 0..MaxReviews}

\* A stored study session of the given topic, as createSession pushed it at time t.
Sess(k, topic, t) ==
    [id |-> "s" \o ToString(k), topic |-> topic, quizIds |-> <<>>,
     method |-> "ingest", startedAt |-> t]

\* The topics studied in a week, session by session.
TopicLists == {<<>>, <<"tla">>, <<"tla", "tla">>, <<"tla", "raft">>,
               <<"raft", "tla", "paxos">>, <<"tla", "raft", "tla", "zab", "paxos">>}

\* A session started the day before the window opens, or none.
OldSessions == {<<>>, <<Sess(0, "old", ReportDay - WindowDays - 1)>>}

\* The sessions of a week: the first one started on the day the window opens.
SessionList(topics) ==
    [k \in 1..Len(topics) |->
        Sess(k, topics[k], IF k = 1 THEN ReportDay - WindowDays ELSE ReportDay - 1)]

\* A busy week: one session on "tla", then m sessions on "raft".
BusyWeek(m) ==
    [k \in 1..(m + 1) |-> Sess(k, IF k = 1 THEN "tla" ELSE "raft", ReportDay - 1)]

SessionLists ==
    {old \o SessionList(topics) : old \in OldSessions, topics \in TopicLists}
    \cup {BusyWeek(m) : m \in (SessionLookback - 2)..(SessionLookback + 1)}

\* The dataset before the report: the items, the reviews and the sessions.
ReportDataset(reviews, sessions) ==
    [CreateEmpty(0) EXCEPT !.quizzes = ReportQuizzes,
                           !.reviews = reviews,
                           !.sessions = sessions,
                           !.lastUpdated = ReportDay - 1]

\* A tutor constructed at time t over the document of the dataset d: it holds
\* what load() makes of the document.
TutorOver(d, t) ==
    /\ now = t
    /\ db = [i \in Insts |-> IF i = "a" THEN Load(FileDoc(Stringify(d)), t)
                                        ELSE CreateEmpty(0)]
    /\ file = FileDoc(Stringify(d))
    /\ loaded = [i \in Insts |-> IF i = "a" THEN "doc" ELSE "none"]
    /\ intervals = [i \in Insts |-> IF i = "a" THEN DefaultIntervals ELSE <<>>]
    /\ result = [inst |-> "a", status |-> "ok"]
    /\ disk = "ok"
    /\ hist = [i \in Insts |-> [q \in Items |-> NoHist]]
    /\ calls = [q \in Items |-> 0]
    /\ sent = {}
    /\ userLevel = [i \in Insts |-> DefaultLevel]
    /\ cronJobs = <<>>
    /\ running = {}
    /\ awaiting = NoneAwaiting

\* The tutor on the day of the report, over a repository loaded from its document.
InitReport ==
    \E reviews \in RankingLists \cup RateLists, sessions \in SessionLists :
        /\ Len(reviews) > 4 => sessions = <<>>
        /\ TutorOver(ReportDataset(reviews, sessions), ReportDay)

NextReport ==
    \/ HandleWeeklyReport("a")
    \/ GatewayAnswered("a", "weekly")

SpecReport == InitReport /\ [][NextReport]_vars

-----------------------------------------------------------------------------
(* The weekly report *)

\* The reviews of the window of a stored report, in the order of the repository.
WindowOf(rep) ==
    SelectSeq(db["a"].reviews, LAMBDA r : r.reviewedAt >= rep.generatedAt - WindowDays)

\* The number of fails of item q in a window, and the position of its first fail.
FailsOf(w, q) == Cardinality({k \in 1..Len(w) : w[k].quizId = q /\ w[k].result = "fail"})
FirstFailOf(w, q) ==
    CHOOSE k \in 1..Len(w) :
        /\ w[k].quizId = q /\ w[k].result = "fail"
        /\ \A j \in 1..(k - 1) : ~(w[j].quizId = q /\ w[j].result = "fail")
FailingIds(w) == {w[k].quizId : k \in {j \in 1..Len(w) : w[j].result = "fail"}}

\* Item p ranks before item q: more fails, or as many and failing first.
RanksBefore(w, p, q) ==
    \/ FailsOf(w, p) > FailsOf(w, q)
    \/ FailsOf(w, p) = FailsOf(w, q) /\ FirstFailOf(w, p) < FirstFailOf(w, q)

Ranked(rep) ==
    LET w   == WindowOf(rep)
        top == rep.topWeaknesses
        ids == {top[k].quizId : k \in 1..Len(top)}
    IN  /\ Len(top) = Min(TopCount, Cardinality(FailingIds(w)))
        /\ ids \subseteq FailingIds(w)
        /\ \A k \in 1..Len(top) : top[k].failCount = FailsOf(w, top[k].quizId)
        /\ \A j, k \in 1..Len(top) :
              j < k => RanksBefore(w, top[j].quizId, top[k].quizId)
        /\ \A q \in FailingIds(w) \ ids :
              \A k \in 1..Len(top) : RanksBefore(w, top[k].quizId, q)

\* C23: the ranking of a weekly report holds, for each item that failed in the
\* window, its number of fails there; the entries are in descending order of that
\* number, items of equal number in the order of their first fail; it holds the
\* first five of them, and all of them when fewer than five items failed.
C23_FailureRanking ==
    \A k \in 1..Len(db["a"].weeklyReports) : Ranked(db["a"].weeklyReports[k])

\* Six items failed in the window; the report ranks five of them, q2, which failed
\* twice, before items that failed first, and two items of one fail each in the
\* order of their first fail.
C23_Witness ==
    /\ Len(db["a"].weeklyReports) = 1
    /\ LET rep == db["a"].weeklyReports[1]
           w   == WindowOf(rep)
           top == rep.topWeaknesses
       IN  /\ Cardinality(FailingIds(w)) = 6
           /\ Len(top) = 5
           /\ top[1].quizId = "q2" /\ top[1].failCount = 2
           /\ FirstFailOf(w, "q2") > FirstFailOf(w, top[2].quizId)
           /\ top[2].failCount = 1 /\ top[3].failCount = 1

\* The window of a report holds ten reviews, seven passes and three fails, every
\* fail on an item of topic "Quantum" held by the repository.
QuantumWeek(rep) ==
    LET w == WindowOf(rep)
    IN  /\ Len(w) = 10
        /\ Cardinality({k \in 1..Len(w) : w[k].result = "pass"}) = 7
        /\ Cardinality({k \in 1..Len(w) : w[k].result = "fail"}) = 3
        /\ \A q \in FailingIds(w) :
              /\ GetQuiz(db["a"], q) # <<>>
              /\ GetQuiz(db["a"], q)[1].topic = "Quantum"

\* The largest number of fails of one item in a window.
MostFails(w) ==
    CHOOSE n \in 0..Len(w) :
        /\ \A q \in FailingIds(w) : FailsOf(w, q) <= n
        /\ \E q \in FailingIds(w) : FailsOf(w, q) = n

HasRule(rep, rule) ==
    \E k \in 1..Len(rep.recommendations) : rep.recommendations[k].rule = rule

\* C24 as stated: in every report over such a week the rate is 70, the first
\* weakness has topic "Quantum" and fail count 3, and the recommendations hold the
\* message of the 50-75 bucket.
C24_Original ==
    \A k \in 1..Len(db["a"].weeklyReports) :
        LET rep == db["a"].weeklyReports[k]
        IN  QuantumWeek(rep) =>
               /\ RateIs(rep.correctRate, 70)
               /\ rep.topWeaknesses[1].topic = "Quantum"
               /\ rep.topWeaknesses[1].failCount = 3
               /\ HasRule(rep, "practice")

\* C24: in every report over such a week the rate is 70, the recommendations hold
\* the message of the 50-75 bucket and the first weakness has topic "Quantum";
\* its fail count is the largest number of fails of one item, which is 3 exactly
\* when the three fails are fails of one item.
C24_Amended ==
    \A k \in 1..Len(db["a"].weeklyReports) :
        LET rep == db["a"].weeklyReports[k]
            w   == WindowOf(rep)
        IN  QuantumWeek(rep) =>
               /\ RateIs(rep.correctRate, 70)
               /\ HasRule(rep, "practice")
               /\ rep.topWeaknesses[1].topic = "Quantum"
               /\ rep.topWeaknesses[1].failCount = MostFails(w)
               /\ rep.topWeaknesses[1].failCount = 3
                     <=> Cardinality(FailingIds(w)) = 1

\* A report over such a week in which q1 failed three times: it is the first
\* weakness, with fail count 3.
C24_Witness ==
    /\ Len(db["a"].weeklyReports) = 1
    /\ QuantumWeek(db["a"].weeklyReports[1])
    /\ FailingIds(WindowOf(db["a"].weeklyReports[1])) = {"q1"}
    /\ db["a"].weeklyReports[1].topWeaknesses[1].quizId = "q1"
    /\ db["a"].weeklyReports[1].topWeaknesses[1].failCount = 3
    /\ RateIs(db["a"].weeklyReports[1].correctRate, 70)

\* The topics of all the sessions of the repository that started in the window of
\* a report.
TopicsInWindow(rep) ==
    {db["a"].sessions[k].topic :
        k \in {j \in 1..Len(db["a"].sessions) :
                  db["a"].sessions[j].startedAt >= rep.generatedAt - WindowDays}}

\* C25: topicsStudied of a weekly report is the number of distinct topics among all
\* the sessions that started in the trailing seven days, however many sessions
\* the repository holds.
C25_TopicsStudied ==
    \A k \in 1..Len(db["a"].weeklyReports) :
        db["a"].weeklyReports[k].topicsStudied =
            Cardinality(TopicsInWindow(db["a"].weeklyReports[k]))

RateRules == {"lower", "practice", "raise"}

Recommended(rep) ==
    LET recs == rep.recommendations
        weak == Len(rep.topWeaknesses) > 0
        few  == rep.topicsStudied < 3
        rate == rep.correctRate
    IN  /\ Len(recs) = 1 + (IF weak THEN 1 ELSE 0) + (IF few THEN 1 ELSE 0)
        /\ recs[1].rule \in RateRules
        /\ recs[1].rule = "lower" <=> rate.num < 50 * rate.den
        /\ recs[1].rule = "practice" <=>
              rate.num >= 50 * rate.den /\ rate.num < 75 * rate.den
        /\ recs[1].rule = "raise" <=> rate.num >= 75 * rate.den
        /\ \A k \in 2..Len(recs) : recs[k].rule \notin RateRules
        /\ weak => recs[2] = [rule |-> "spar", topic |-> rep.topWeaknesses[1].topic]
        /\ few => recs[Len(recs)].rule = "volume"

\* C26: the recommendations of a weekly report are, in this order: exactly one rate
\* message (lower the difficulty below 50, targeted practice from 50 to below
\* 75, raise the difficulty from 75), then a call-out naming the topic of the
\* first-ranked weakness iff there is a weakness, then the volume nudge iff
\* fewer than three topics were studied.
C26_Recommendations ==
    \A k \in 1..Len(db["a"].weeklyReports) : Recommended(db["a"].weeklyReports[k])

\* A report at a rate of exactly 50 with a weakness and two topics studied:
\* targeted practice, the call-out for "Quantum", the volume nudge.
C26_Witness ==
    /\ Len(db["a"].weeklyReports) = 1
    /\ LET rep == db["a"].weeklyReports[1]
       IN  /\ RateIs(rep.correctRate, 50)
           /\ rep.topicsStudied = 2
           /\ rep.recommendations = <<[rule |-> "practice", topic |-> NoTopic],
                                      [rule |-> "spar", topic |-> "Quantum"],
                                      [rule |-> "volume", topic |-> NoTopic]>>

PassesOf(w) == Cardinality({k \in 1..Len(w) : w[k].result = "pass"})

\* C27: the rate of a weekly report is 0 when its window holds no review, 100 when
\* the window is not empty and holds passes only, and in general
\* 100 * passes / reviews of the window.
C27_CorrectRate ==
    \A k \in 1..Len(db["a"].weeklyReports) :
        LET rep == db["a"].weeklyReports[k]
            w   == WindowOf(rep)
        IN  /\ rep.totalReviews = Len(w)
            /\ Len(w) = 0 => RateIs(rep.correctRate, 0)
            /\ Len(w) > 0 /\ PassesOf(w) = Len(w) => RateIs(rep.correctRate, 100)
            /\ Len(w) > 0 =>
                  rep.correctRate.num * Len(w) = 100 * PassesOf(w) * rep.correctRate.den

\* A report over a week without reviews, the repository holding an older fail:
\* the rate is 0.
C27_Witness ==
    /\ Len(db["a"].weeklyReports) = 1
    /\ Len(db["a"].reviews) = 1
    /\ WindowOf(db["a"].weeklyReports[1]) = <<>>
    /\ RateIs(db["a"].weeklyReports[1].correctRate, 0)
    /\ db["a"].weeklyReports[1].totalReviews = 0

-----------------------------------------------------------------------------
(* CentaurTutor: the scheduled handlers *)

\* The scheduling states found by the handlers: none, q1 due since yesterday, or
\* q1 due with a stage below 0, as updateSRMeta or the document can set it.
TriggerStates == {<<>>, <<NewMeta("q1", ReportDay - 1)>>,
                  <<[NewMeta("q1", ReportDay - 1) EXCEPT !.currentStage = -1]>>}

\* The tutor when the scheduled jobs fire, over a repository loaded from its
\* document.
InitTrigger ==
    \E reviews \in {r \in RateLists : Len(r) <= 2}, sessions \in SessionLists,
       states \in TriggerStates :
        TutorOver([ReportDataset(reviews, sessions) EXCEPT !.spacedRepetition = states],
                  ReportDay)

\* The three jobs registered by registerCronJobs, in any order.
NextTrigger ==
    \/ HandleDailyReview("a")
    \/ HandleEveningReview("a")
    \/ HandleWeeklyReport("a")
    \/ \E h \in Handlers : GatewayAnswered("a", h)

SpecTrigger == InitTrigger /\ [][NextTrigger]_vars

\* C28: a call of one of the three scheduled handlers (due review, evening
\* summary, weekly report) hands no message to the gateway: nothing is sent to
\* any channel by the handler itself.
C28_NoSend ==
    [][HandleDailyReview("a") \/ HandleEveningReview("a") \/ HandleWeeklyReport("a")
          => sent' = sent]_vars

-----------------------------------------------------------------------------
(* The learner level *)

\* const validLevels = ["beginner", "intermediate", "advanced", "expert"]
ValidLevels == {"beginner", "intermediate", "advanced", "expert"}

\* handleLevel() without an argument.
NoLevel == ""

\* The arguments of /level: none, the four levels, and two other words.
LevelInputs == {NoLevel} \cup ValidLevels \cup {"guru", "Expert"}

RECURSIVE Sum(_)
Sum(s) == IF Len(s) = 0 THEN 0 ELSE s[1] + Sum(SubSeq(s, 2, Len(s)))

\* averageCorrectRate of getSummary(): totalAttempts > 0 ?
\* (totalCorrect / totalAttempts) * 100 : 0 over all the scheduling states, as
\* the exact fraction num / den.
AverageCorrectRate(d) ==
    LET metas         == d.spacedRepetition
        totalAttempts == Sum([k \in 1..Len(metas) |-> metas[k].totalAttempts])
        totalCorrect  == Sum([k \in 1..Len(metas) |-> metas[k].totalCorrect])
    IN  IF totalAttempts > 0 THEN [num |-> 100 * totalCorrect, den |-> totalAttempts]
                             ELSE [num |-> 0, den |-> 1]

\* getLevelInfo(): the level shown is config.userLevel; the advice follows the
\* average rate (> 85, > 60, otherwise).
GetLevelInfo(d, level) ==
    LET rate == AverageCorrectRate(d)
    IN  [reply  |-> "info",
         level  |-> level,
         advice |-> IF rate.num > 85 * rate.den THEN "raise"
                    ELSE IF rate.num > 60 * rate.den THEN "keep"
                    ELSE "lower"]

\* handleLevel(newLevel) of index.ts on instance i: a level outside validLevels is
\* rejected, a valid one is answered by the confirmation, no argument by
\* getLevelInfo().  No branch assigns config.userLevel.
HandleLevel(i, newLevel) ==
    /\ Up(i)
    /\ result' =
          IF newLevel # NoLevel
          THEN IF newLevel \notin ValidLevels
               THEN [inst |-> i, status |-> "ok", reply |-> "rejected",
                     level |-> NoLevel, advice |-> ""]
               ELSE [inst |-> i, status |-> "ok", reply |-> "changed",
                     level |-> newLevel, advice |-> ""]
          ELSE [inst |-> i, status |-> "ok"] @@ GetLevelInfo(db[i], userLevel[i])
    /\ UNCHANGED <<now, file, loaded, intervals, db, disk, hist, calls, sent, userLevel, cronJobs, running, awaiting>>

\* The plugin initialised with any level in USER_LEVEL: the tutor is made and its
\* three jobs are registered.
InitLevel ==
    /\ now = 0
    /\ file = FileAbsent
    /\ loaded = [i \in Insts |-> IF i = "a" THEN "absent" ELSE "none"]
    /\ intervals = [i \in Insts |-> IF i = "a" THEN DefaultIntervals ELSE <<>>]
    /\ db = [i \in Insts |-> CreateEmpty(0)]
    /\ result = [inst |-> "a", status |-> "ok"]
    /\ disk = "ok"
    /\ hist = [i \in Insts |-> [q \in Items |-> NoHist]]
    /\ calls = [q \in Items |-> 0]
    /\ sent = {}
    /\ cronJobs = NewJobs({})
    /\ running = JobsIn(NewJobs({}))
    /\ awaiting = NoneAwaiting
    /\ \E level \in ValidLevels :
          userLevel = [i \in Insts |-> IF i = "a" THEN level ELSE DefaultLevel]

\* The learner answers reviews of one item and asks for, or sets, the level.
NextLevel ==
    \/ \E c \in BOOLEAN : ProcessReviewResult("a", "q1", c)
    \/ \E newLevel \in LevelInputs : HandleLevel("a", newLevel)

SpecLevel == InitLevel /\ [][NextLevel]_vars

\* C29: after handleLevel(L) with L one of beginner, intermediate, advanced, expert
\* returned its confirmation, the level of the tutor is L, and it is the level a
\* following query shows; any other value is rejected and the level is unchanged.
C29_LevelChanged ==
    [][\A newLevel \in LevelInputs \ {NoLevel} :
          HandleLevel("a", newLevel) =>
              IF newLevel \in ValidLevels
              THEN /\ result'.reply = "changed"
                   /\ userLevel'["a"] = newLevel
                   /\ GetLevelInfo(db'["a"], userLevel'["a"]).level = newLevel
              ELSE /\ result'.reply = "rejected"
                   /\ userLevel' = userLevel]_vars

-----------------------------------------------------------------------------
(* SpacedRepetitionEngine: the kind of review question *)

\* SpacedRepetitionEngine.generateReviewQuestion(quiz) for the item q on instance
\* i: the state of q is fetched, or created due after intervals[0], and the
\* question is made from the type of its stage.
GenerateReviewQuestion(i, q) ==
    /\ Up(i)
    /\ ~HasMeta(db[i], q) => Len(db[i].spacedRepetition) < MaxStates
    /\ IF Len(intervals[i]) = 0
       THEN /\ result' = [inst |-> i, status |-> "RangeError"]
            /\ UNCHANGED <<db, file, hist>>
       ELSE LET d1         == GetOrCreateSRMeta(db[i], q,
                                                ReviewDate(intervals[i], 0, now), now)
                reviewType == GetReviewType(MetaOf(d1, q).currentStage)
            IN  /\ db' = [db EXCEPT ![i] = d1]
                /\ file' = IF HasMeta(db[i], q) THEN file ELSE Written(d1)
                /\ hist' = IF HasMeta(db[i], q) THEN hist
                           ELSE [hist EXCEPT ![i][q] = [ev |-> <<"asked">>, t0 |-> now]]
                /\ result' = IF Len(reviewType) = 0
                             THEN [inst |-> i, status |-> "TypeError"]
                             ELSE [inst |-> i, status |-> "ok", type |-> reviewType[1]]
    /\ UNCHANGED <<now, loaded, intervals, disk, calls, sent, userLevel, cronJobs, running, awaiting>>

\* Outcomes are recorded for an item and questions generated for it.
NextQuestion ==
    \/ \E c \in BOOLEAN : ProcessReviewResult("a", "q1", c)
    \/ \E q \in Items : GenerateReviewQuestion("a", q)

SpecQuestion == Init /\ [][NextQuestion]_vars

\* C30: the type of question generated for an item is a function of the stage of
\* its scheduling state alone: recall, apply, integrate, critique, teach for the
\* stages 0 to 4 and teach for every stage from 5 on; a type is returned for
\* every stage the scheduler holds.
C30_Archetype ==
    [][\A q \in Items :
          GenerateReviewQuestion("a", q) =>
              LET stage == MetaOf(db'["a"], q).currentStage
              IN  /\ result'.status = "ok"
                  /\ stage = 0 => result'.type = "recall"
                  /\ stage = 1 => result'.type = "apply"
                  /\ stage = 2 => result'.type = "integrate"
                  /\ stage = 3 => result'.type = "critique"
                  /\ stage = 4 => result'.type = "teach"
                  /\ stage >= 5 => result'.type = "teach"
                  /\ stage >= 0]_vars

\* With six intervals an item reached stage 5 and the question generated for it
\* is of the type teach.
C30_Witness ==
    /\ Len(intervals["a"]) = 6
    /\ HasMeta(db["a"], "q1")
    /\ MetaOf(db["a"], "q1").currentStage = 5
    /\ "type" \in DOMAIN result
    /\ result.type = "teach"

-----------------------------------------------------------------------------
(* SpacedRepetitionEngine: the summary *)

\* Mutant: a success ratio of exactly one half counts as struggling.
GetSummary_HalfStruggles(d, ivs, t) ==
    LET allMetas == d.spacedRepetition
    IN  [totalQuizzes |-> Len(allMetas),
         dueToday     |-> Len(SelectSeq(allMetas, LAMBDA m : m.nextReviewDate <= t)),
         mastered     |-> Len(SelectSeq(allMetas,
                                        LAMBDA m : m.currentStage >= Len(ivs) - 1)),
         struggling   |-> Len(SelectSeq(allMetas,
                              LAMBDA m : /\ m.totalAttempts >= 3
                                         /\ 2 * m.totalCorrect <= m.totalAttempts)),
         averageCorrectRate |-> AverageCorrectRate(d)]

\* getSummary() at time t, the engine holding the intervals ivs.
\* totalCorrect / totalAttempts < 0.5 is 2 * totalCorrect < totalAttempts.
GetSummary(d, ivs, t) ==
    LET allMetas == d.spacedRepetition
    IN  [totalQuizzes |-> Len(allMetas),
         dueToday     |-> Len(SelectSeq(allMetas, LAMBDA m : m.nextReviewDate <= t)),
         mastered     |-> Len(SelectSeq(allMetas,
                                        LAMBDA m : m.currentStage >= Len(ivs) - 1)),
         struggling   |-> Len(SelectSeq(allMetas,
                              LAMBDA m : /\ m.totalAttempts >= 3
                                         /\ 2 * m.totalCorrect < m.totalAttempts)),
         averageCorrectRate |-> AverageCorrectRate(d)]

\* SpacedRepetitionEngine.getSummary() on instance i, as getStatusReport and
\* getLevelInfo call it: nothing is changed.
GetSummaryCall(i) ==
    /\ Up(i)
    /\ result' = [inst |-> i, status |-> "ok",
                  summary |-> GetSummary(db[i], intervals[i], now)]
    /\ UNCHANGED <<now, file, loaded, intervals, db, disk, hist, calls, sent, userLevel, cronJobs, running, awaiting>>

\* Outcomes are recorded for the items and the summary is asked for.
NextSummary ==
    \/ \E q \in Items, c \in BOOLEAN : ProcessReviewResult("a", q, c)
    \/ GetSummaryCall("a")

SpecSummary == Init /\ [][NextSummary]_vars

\* The positions of the scheduling states, and the total of a counter over them.
StatePositions == 1..Len(db["a"].spacedRepetition)

RECURSIVE TotalOver(_, _)
TotalOver(S, field) ==
    IF S = {} THEN 0
    ELSE LET k == CHOOSE x \in S : TRUE
         IN  db["a"].spacedRepetition[k][field] + TotalOver(S \ {k}, field)

\* C31: the summary counts as mastered the states at a stage >= N-1 and as
\* struggling the states with at least 3 attempts of which less than half were
\* correct; its average rate is 100 * (sum of totalCorrect) / (sum of
\* totalAttempts) over all states, and 0 when there was no attempt.
C31_Summary ==
    "summary" \in DOMAIN result =>
        LET sr       == db["a"].spacedRepetition
            n        == Len(intervals["a"])
            attempts == TotalOver(StatePositions, "totalAttempts")
            correct  == TotalOver(StatePositions, "totalCorrect")
            rate     == result.summary.averageCorrectRate
        IN  /\ result.summary.mastered =
                  Cardinality({k \in StatePositions : sr[k].currentStage >= n - 1})
            /\ result.summary.struggling =
                  Cardinality({k \in StatePositions :
                                  /\ sr[k].totalAttempts >= 3
                                  /\ 2 * sr[k].totalCorrect < sr[k].totalAttempts})
            /\ attempts = 0 => RateIs(rate, 0)
            /\ attempts > 0 => rate.num * attempts = 100 * correct * rate.den

\* With the default intervals q1 passed three times (stage 4, mastered) and q2
\* failed once: the summary shows one mastered state, none struggling and a
\* rate of 75.
C31_Witness ==
    /\ "summary" \in DOMAIN result
    /\ intervals["a"] = DefaultIntervals
    /\ Len(db["a"].spacedRepetition) = 2
    /\ result.summary.mastered = 1
    /\ result.summary.struggling = 0
    /\ RateIs(result.summary.averageCorrectRate, 75)

-----------------------------------------------------------------------------
(* CentaurTutor: answers to review questions *)

\* The learner's answers are evaluated while items are added, initialised and
\* removed.
NextAnswer ==
    \/ \E q \in Items, c \in BOOLEAN : ProcessReviewAnswer("a", q, c, FeedbackOf(c))
    \/ AddQuizzesCall("a", <<[topic |-> "tla", sourceFile |-> Undefined]>>, <<"q1">>)
    \/ InitializeForQuiz("a", "q1")
    \/ RemoveQuizCall("a", "q1")

SpecAnswer == Init /\ [][NextAnswer]_vars

\* The review log over the days: answers on an item are evaluated, the item is
\* added and removed, and the weekly report is made.
NextLog ==
    \/ Tick
    \/ \E c \in BOOLEAN : ProcessReviewAnswer("a", "q1", c, FeedbackOf(c))
    \/ AddQuizzesCall("a", <<[topic |-> "tla", sourceFile |-> Undefined]>>, <<"q1">>)
    \/ RemoveQuizCall("a", "q1")
    \/ HandleWeeklyReport("a")
    \/ GatewayAnswered("a", "weekly")

SpecLog == InitStore /\ [][NextLog]_vars

\* C32: the review list only grows at its end: a call that evaluates an answer
\* appends one record, stamped with the current time, after the records already
\* there, and no call of the repository, the scheduler or the weekly report
\* removes, reorders or alters a record of the list.
C32_AppendOnly ==
    [][/\ Len(db'["a"].reviews) >= Len(db["a"].reviews)
       /\ SubSeq(db'["a"].reviews, 1, Len(db["a"].reviews)) = db["a"].reviews
       /\ \A c \in BOOLEAN :
             ProcessReviewAnswer("a", "q1", c, FeedbackOf(c)) =>
                db'["a"].reviews =
                    Append(db["a"].reviews,
                           [quizId     |-> "q1",
                            result     |-> IF c THEN "pass" ELSE "fail",
                            feedback   |-> FeedbackOf(c),
                            reviewedAt |-> now])
       /\ ~(\E c \in BOOLEAN : ProcessReviewAnswer("a", "q1", c, FeedbackOf(c))) =>
             db'["a"].reviews = db["a"].reviews]_vars

\* Two reviews of q1, a fail on the first day and a pass on the next, are in the
\* list in that order after the item was removed and a weekly report made.
C32_Witness ==
    /\ Len(db["a"].reviews) = 2
    /\ db["a"].reviews[1].result = "fail" /\ db["a"].reviews[1].reviewedAt = 0
    /\ db["a"].reviews[2].result = "pass" /\ db["a"].reviews[2].reviewedAt = 1
    /\ db["a"].quizzes = <<>>
    /\ Len(db["a"].weeklyReports) = 1
    /\ db["a"].weeklyReports[1].totalReviews = 2

-----------------------------------------------------------------------------
(* Streaks *)

\* Interval lists long enough for a fourth accelerated answer to show.
StreakLists == {<<1, 3, 7>>, DefaultIntervals, <<1, 2, 4, 8, 16, 32, 64>>,
                <<1, 2, 3, 5, 8, 13, 21, 34>>}

InitStreak ==
    /\ now = 0
    /\ file = FileAbsent
    /\ loaded = [i \in Insts |-> IF i = "a" THEN "absent" ELSE "none"]
    /\ \E ivs \in StreakLists :
          intervals = [i \in Insts |-> IF i = "a" THEN ivs ELSE <<>>]
    /\ db = [i \in Insts |-> CreateEmpty(0)]
    /\ result = [inst |-> "a", status |-> "ok"]
    /\ disk = "ok"
    /\ hist = [i \in Insts |-> [q \in Items |-> NoHist]]
    /\ calls = [q \in Items |-> 0]
    /\ sent = {}
    /\ userLevel = [i \in Insts |-> DefaultLevel]
    /\ cronJobs = <<>>
    /\ running = {}
    /\ awaiting = NoneAwaiting

\* An item is initialised and outcomes are recorded for it.
NextStreak ==
    \/ InitializeForQuiz("a", "q1")
    \/ \E c \in BOOLEAN : ProcessReviewResult("a", "q1", c)

SpecStreak == InitStreak /\ [][NextStreak]_vars

\* The number of correct outcomes at the end of the events of a state: the run
\* since its creation or its last incorrect outcome.
RECURSIVE RunOf(_)
RunOf(ev) ==
    IF Len(ev) = 0 \/ ev[Len(ev)] # "pass" THEN 0
    ELSE 1 + RunOf(SubSeq(ev, 1, Len(ev) - 1))

\* C33: a correct outcome never resets the streak: after k correct outcomes in a
\* row since the creation of the state or its last incorrect outcome the streak
\* is k, and each correct outcome from the third of the run on advances the
\* stage by 2, clamped to N-1.
C33_StreakKept ==
    [][\A c \in BOOLEAN :
          ProcessReviewResult("a", "q1", c) =>
              LET m  == StateOf(db["a"], "q1")
                  m2 == MetaOf(db'["a"], "q1")
                  k  == RunOf(Events("a", "q1")')
              IN  /\ m2.consecutiveCorrect = k
                  /\ c /\ k >= 3 =>
                        m2.currentStage =
                            Min(m.currentStage + 2, Len(intervals["a"]) - 1)]_vars

\* With seven intervals four correct outcomes in a row: the streak is 4 and the
\* stages were 1, 2, 4 and 6.
C33_Witness ==
    /\ Len(intervals["a"]) = 7
    /\ Events("a", "q1") = <<"lazy", "pass", "pass", "pass", "pass">>
    /\ MetaOf(db["a"], "q1").consecutiveCorrect = 4
    /\ MetaOf(db["a"], "q1").currentStage = 6

-----------------------------------------------------------------------------
(* The counters of a scheduling state *)

CountersOrdered(m) ==
    /\ 0 <= m.consecutiveCorrect
    /\ m.consecutiveCorrect <= m.totalCorrect
    /\ m.totalCorrect <= m.totalAttempts

\* C34: after every step every scheduling state has
\* 0 <= consecutiveCorrect <= totalCorrect <= totalAttempts, and a recorded
\* outcome increases the totalAttempts of its item by exactly 1.
C34_Counters ==
    [][/\ \A k \in 1..Len(db'["a"].spacedRepetition) :
             CountersOrdered(db'["a"].spacedRepetition[k])
       /\ \A q \in Items, c \in BOOLEAN :
             ProcessReviewResult("a", q, c) =>
                MetaOf(db'["a"], q).totalAttempts =
                    StateOf(db["a"], q).totalAttempts + 1]_vars

\* q1 passed, failed and passed again: streak 1, two correct of three attempts;
\* q2 failed once.
C34_Witness ==
    /\ Events("a", "q1") = <<"lazy", "pass", "fail", "pass">>
    /\ Events("a", "q2") = <<"lazy", "fail">>
    /\ MetaOf(db["a"], "q1").consecutiveCorrect = 1
    /\ MetaOf(db["a"], "q1").totalCorrect = 2
    /\ MetaOf(db["a"], "q1").totalAttempts = 3
    /\ MetaOf(db["a"], "q2").totalAttempts = 1

-----------------------------------------------------------------------------
(* What an outcome changes *)

\* The scheduling states the repository holds before the outcomes: none, one for
\* q1, or one for each item, in either order.
FrameStates ==
    {<<>>,
     <<NewMeta("q1", ReportDay)>>,
     <<NewMeta("q1", ReportDay), NewMeta("q2", ReportDay - 1)>>,
     <<NewMeta("q2", ReportDay - 1), NewMeta("q1", ReportDay)>>}

\* A tutor over a repository with items, reviews and sessions.
InitFrame ==
    \E reviews \in {r \in RateLists : Len(r) <= 1}, topics \in TopicLists,
       states \in FrameStates :
        /\ Len(topics) <= 2
        /\ TutorOver([ReportDataset(reviews, SessionList(topics))
                         EXCEPT !.spacedRepetition = states], ReportDay)

\* Outcomes are recorded for the two items.
NextFrame == \E q \in Items, c \in BOOLEAN : ProcessReviewResult("a", q, c)

SpecFrame == InitFrame /\ [][NextFrame]_vars

\* The scheduling states of the items other than q, in their order.
OtherStates(d, q) == SelectSeq(d.spacedRepetition, LAMBDA m : m.quizId # q)

\* C35: an outcome recorded for an item changes the scheduling state of that item
\* only: the states of the other items, the items, the reviews and the sessions
\* are after the call what they were before.
C35_OutcomeFrame ==
    [][\A q \in Items, c \in BOOLEAN :
          ProcessReviewResult("a", q, c) =>
              /\ OtherStates(db'["a"], q) = OtherStates(db["a"], q)
              /\ db'["a"].quizzes = db["a"].quizzes
              /\ db'["a"].reviews = db["a"].reviews
              /\ db'["a"].sessions = db["a"].sessions
              /\ db'["a"].sparringSessions = db["a"].sparringSessions
              /\ db'["a"].weeklyReports = db["a"].weeklyReports
              /\ MetaOf(db'["a"], q) # StateOf(db["a"], q)]_vars

\* The repository holds items, a review, sessions and the states of q2 and q1;
\* an outcome was recorded for q1, whose state comes second: the state of q2 is
\* the one created.
C35_Witness ==
    /\ Len(db["a"].quizzes) > 0 /\ Len(db["a"].reviews) = 1 /\ Len(db["a"].sessions) = 2
    /\ Len(db["a"].spacedRepetition) = 2
    /\ db["a"].spacedRepetition[1] = NewMeta("q2", ReportDay - 1)
    /\ db["a"].spacedRepetition[2].quizId = "q1"
    /\ db["a"].spacedRepetition[2].totalAttempts = 1

-----------------------------------------------------------------------------
(* Scheduling states and their items *)

\* C36: every scheduling state of the repository refers to an item the repository
\* holds, and the dueToday count of the summary is the number of items
\* getDueQuizzes returns at the same instant.
C36_StatesHaveItems ==
    /\ \A k \in 1..Len(db["a"].spacedRepetition) :
          GetQuiz(db["a"], db["a"].spacedRepetition[k].quizId) # <<>>
    /\ GetSummary(db["a"], intervals["a"], now).dueToday
          = Len(GetDueQuizzes(db["a"], now))

-----------------------------------------------------------------------------
(* Construction over a document that cannot be loaded *)

\* The data directory holds the serialized FoundDataset in a file like f: one that
\* is read normally ("doc"), that readFileSync cannot read ("unreadable": the bytes
\* are intact), or whose text JSON.parse rejects ("torn": the text is damaged, the
\* records are still in it).
StoredAs(f) == [f EXCEPT !.doc = Stringify(FoundDataset)]

InitFallback ==
    /\ now = 0
    /\ file \in {StoredAs(f) : f \in {g \in Documents : g.kind # "absent" /\ g.bad = {}}}
    /\ loaded = [i \in Insts |-> "none"]
    /\ intervals = [i \in Insts |-> <<>>]
    /\ db = [i \in Insts |-> CreateEmpty(0)]
    /\ result = [inst |-> "a", status |-> "ok"]
    /\ disk = "ok"
    /\ hist = [i \in Insts |-> [q \in Items |-> NoHist]]
    /\ calls = [q \in Items |-> 0]
    /\ sent = {}
    /\ userLevel = [i \in Insts |-> DefaultLevel]
    /\ cronJobs = <<>>
    /\ running = {}
    /\ awaiting = NoneAwaiting

\* The tutor is started over the file and its repository is then mutated.
NextFallback ==
    \/ Tick
    \/ Initialize("a", NoConfig)
    \/ \E r \in ReviewRecords : AddReviewCall("a", r)
    \/ \E id \in Items :
          AddQuizzesCall("a", <<[topic |-> "tla", sourceFile |-> Undefined]>>, <<id>>)
    \/ \E q \in Items : RemoveQuizCall("a", q)

SpecFallback == InitFallback /\ [][NextFallback]_vars

\* Every record of dataset d is in the stored document f.
HoldsRecordsOf(f, d) ==
    \A fld \in ArrayFields :
        \A k \in 1..Len(d[fld]) :
            \E j \in 1..Len(f.doc[fld]) : f.doc[fld][j] = d[fld][k]

\* C38: when loading failed (the file was unreadable or unparseable) and the
\* repository fell back to an empty dataset, the stored document keeps its previous
\* content whatever mutating calls follow.
C38_ContentKept ==
    loaded["a"] \in {"unreadable", "torn"}
        => HoldsRecordsOf(file, Stringify(FoundDataset))

-----------------------------------------------------------------------------
(* The review log and the counters *)

\* The positions of the review records of item q in dataset d.
LoggedOf(d, q) == {k \in 1..Len(d.reviews) : d.reviews[k].quizId = q}

LoggedPasses(d, q) == {k \in LoggedOf(d, q) : d.reviews[k].result = "pass"}

\* C37: when outcomes are recorded through processReviewAnswer only, for every
\* item totalAttempts is the number of its review records and totalCorrect the
\* number of those whose result is pass, after every call.
C37_LogMatchesCounters ==
    \A q \in Items :
        /\ StateOf(db["a"], q).totalAttempts = Cardinality(LoggedOf(db["a"], q))
        /\ StateOf(db["a"], q).totalCorrect = Cardinality(LoggedPasses(db["a"], q))

\* Item q1 was answered right and wrong and item q2 answered once.
C37_Witness ==
    /\ Cardinality(LoggedPasses(db["a"], "q1")) >= 1
    /\ Cardinality(LoggedOf(db["a"], "q1")) > Cardinality(LoggedPasses(db["a"], "q1"))
    /\ Cardinality(LoggedOf(db["a"], "q2")) >= 1
    /\ StateOf(db["a"], "q1").totalAttempts >= 2

-----------------------------------------------------------------------------
(* The scheduled jobs of the plugin module *)

\* No tutor was made yet: the module of index.ts has just been loaded.  The data
\* directory is absent, and can be made or not.
InitCron ==
    /\ now = 0
    /\ file \in {FileAbsent, FileNoDir}
    /\ loaded = [i \in Insts |-> "none"]
    /\ intervals = [i \in Insts |-> <<>>]
    /\ db = [i \in Insts |-> CreateEmpty(0)]
    /\ result = [inst |-> "a", status |-> "ok"]
    /\ disk = "ok"
    /\ hist = [i \in Insts |-> [q \in Items |-> NoHist]]
    /\ calls = [q \in Items |-> 0]
    /\ sent = {}
    /\ userLevel = [i \in Insts |-> DefaultLevel]
    /\ cronJobs = <<>>
    /\ running = {}
    /\ awaiting = NoneAwaiting

\* if (!tutor) await initialize(), the first statement of every handler: it
\* initialises when no tutor was made, with the configuration loadConfig() reads
\* from the environment (REVIEW_INTERVALS, USER_LEVEL), and the handler goes on
\* after the await.
LazyInitialize ==
    /\ ~Up("a")
    /\ \E cfg \in Configs : Initialize("a", cfg)

\* The plugin is initialised, with any configuration, and shut down in any order
\* while the handlers are called.
NextCron ==
    \/ \E cfg \in Configs : Initialize("a", cfg)
    \/ LazyInitialize
    \/ Shutdown
    \/ \E newLevel \in LevelInputs : HandleLevel("a", newLevel)
    \/ \E r \in ReviewRecords : AddReviewCall("a", r)

SpecCron == InitCron /\ [][NextCron]_vars

\* The jobs of one registration: one per schedule, all with the same id.
Registration(jobs) ==
    /\ Len(jobs) = Len(JobKinds)
    /\ \A k \in 1..Len(jobs) : jobs[k].kind = JobKinds[k] /\ jobs[k].id = jobs[1].id

-----------------------------------------------------------------------------
(* The stages an item can reach *)

\* An item of a tutor with any of the interval lists is initialised and answered.
SpecReach == Init /\ [][NextStreak]_vars

\* The scheduling states an item can be in after at most k outcomes, correct or
\* not, from its initialisation.
RECURSIVE ReachedWithin(_, _)
ReachedWithin(ivs, k) ==
    IF k = 0
    THEN {NewMeta("q1", ReviewDate(ivs, 0, 0))}
    ELSE LET S == ReachedWithin(ivs, k - 1)
         IN  S \cup {Rescheduled(m, c, ivs, 0) : m \in S, c \in BOOLEAN}

\* C40: for every non-empty interval list of length N, every stage 0..N-1 is
\* the stage of a state reached from the initialised state by some sequence of
\* outcomes (of at most MaxIssued outcomes for the lists of up to six intervals),
\* and the stage and streak the tutor holds for the item are those of such a state.
C40_AllStagesReachable ==
    /\ \A s \in 0..(Len(intervals["a"]) - 1) :
          \E m \in ReachedWithin(intervals["a"], MaxIssued) : m.currentStage = s
    /\ HasMeta(db["a"], "q1") =>
          \E m \in ReachedWithin(intervals["a"], MaxIssued) :
              /\ m.currentStage = MetaOf(db["a"], "q1").currentStage
              /\ m.consecutiveCorrect = MetaOf(db["a"], "q1").consecutiveCorrect
              /\ m.totalAttempts = MetaOf(db["a"], "q1").totalAttempts

\* Stage 3 of the default list, which the streak of three skips, is reached by
\* three correct outcomes and an incorrect one.
C40_Witness ==
    /\ intervals["a"] = DefaultIntervals
    /\ Events("a", "q1") = <<"init", "pass", "pass", "pass", "fail">>
    /\ MetaOf(db["a"], "q1").currentStage = 3
====
